---- MODULE Spec2Model ----
(***************************************************************************)
(* Model of the canonicalization pipeline of islandresearch: the raw fact  *)
(* store (workers/parser.py), the canonical aggregator                     *)
(* (workers/canonical.py), its materialization transaction and the API's   *)
(* tie checks (api/app/summary_utils.py); further the forecast, driver and  *)
(* backtest functions of the API and the worker (summary_utils.py,         *)
(* app/backtest.py, workers/backtest.py), the inline-XBRL parser's context *)
(* rules (workers/parser.py) and the storage writer                        *)
(* (workers/edgar_client.py); and the jobs: the selection and fetch of     *)
(* missing filings, backfill_recent, backfill_all and backfill_ticker      *)
(* (workers/jobs), materialization runs on two connections, and the loop   *)
(* of the scheduler (workers/jobs/scheduler.py).  The API's floats are     *)
(* exact fractions [n, d] in lowest terms; d = 0 stands for None (n = 0)   *)
(* and NaN (n = 1).                                                        *)
(*                                                                         *)
(* Conventions.  Money is an integer number of cents, so the tolerances    *)
(* 1e-2 are 1.  Dates are day numbers.  Accessions are integers compared   *)
(* as the code compares the accession strings; 0 is the empty accession.   *)
(* None is Python's None / SQL NULL.                                       *)
(***************************************************************************)
EXTENDS Integers, Sequences, FiniteSets, TLC

VARIABLES
    \* ---- the fact store and one materialization run (Spec)
    facts,        \* table facts, in heap (insertion) order
    next_id,      \* the SERIAL of facts.id
    canonical,    \* table canonical_facts as committed
    pc,           \* position of the materialization run: idle/deleted/inserted
    txn,          \* canonical_facts as seen inside the run's open transaction
    run,          \* locals of the run: ticker, strict_ties, aggregated, snapshot
    result,       \* what the last call returned or raised
    \* ---- the pure aggregator (SpecAgg)
    rows,         \* argument of aggregate_canonical_rows
    aggregated,   \* its return value
    stage,        \* which pure step has been applied
    \* ---- the API's tie checks (SpecTie)
    metrics,      \* argument of compute_tie_checks: period -> line item -> entry
    ties,         \* its return value: period -> tie record
    \* ---- one call of a function of the forecast engine, the backtest or the
    \* parser (SpecForecast, SpecBacktest, SpecDrivers, SpecParse)
    argv,         \* the arguments of the call
    ret,          \* what it returned or raised
    \* ---- the raw storage directory of StorageWriter (SpecStorage), where
    \* argv and ret list the arguments and the returned path of every save
    files,        \* the files under the storage root: records [path, content]
    \* ---- the backfill jobs (SpecBackfill)
    filings,      \* table filings: records [accession, ticker]
    calls,        \* the calls made so far to the collaborators of the jobs
    \* ---- materialization runs on connections of their own (SpecConcurrent),
    \* where the rows of canonical carry their id
    sessions,     \* connection -> position and locals of its run
    canonical_id, \* the SERIAL of canonical_facts.id
    \* ---- the scheduler process (SpecScheduler)
    scheduler     \* the clock, the environment and the locals of _main

vars == <<facts, next_id, canonical, pc, txn, run, result, rows, aggregated, stage,
          metrics, ties, argv, ret, files, filings, calls, sessions, canonical_id,
          scheduler>>

tieVars == <<metrics, ties>>

TieIdle == metrics = <<>> /\ ties = <<>>

callVars == <<argv, ret, files>>

CallIdle == argv = <<>> /\ ret = <<>> /\ files = {}

jobVars == <<filings, calls>>

JobIdle == filings = {} /\ calls = <<>>

sessionVars == <<sessions, canonical_id>>

SessionIdle == sessions = <<>> /\ canonical_id = 1

SchedulerIdle == scheduler = <<>>

None == -999

Abs(x) == IF x < 0 THEN -x ELSE x

\* ------------------------------------------------------------------------
\* Allow-list (workers/tag_map.py, mirrored in api/app/summary_utils.py)
\* ------------------------------------------------------------------------
ALLOWED_STATEMENTS == {"income_statement", "balance_sheet", "cash_flow"}

ALLOWED_LINE_ITEMS(statement) ==
    CASE statement = "income_statement" ->
           {"cogs", "ebitda", "eps_basic", "eps_diluted", "gross_profit",
            "income_tax_expense", "interest_expense", "interest_income",
            "net_income", "operating_expenses", "operating_income",
            "other_income_expense", "pre_tax_income", "r_and_d", "revenue",
            "sga", "shares_basic", "shares_diluted", "shares_outstanding",
            "total_expenses"}
      [] statement = "balance_sheet" ->
           {"accounts_payable", "accounts_receivable", "accrued_expenses",
            "assets", "assets_current", "assets_noncurrent", "cash",
            "debt_current", "debt_long_term", "deferred_revenue_current",
            "deferred_revenue_noncurrent", "equity", "goodwill",
            "intangible_assets", "inventory", "liabilities",
            "liabilities_current", "liabilities_equity",
            "liabilities_noncurrent", "long_term_investments",
            "minority_interest", "other_assets_current",
            "other_assets_noncurrent", "other_liabilities_current",
            "other_liabilities_noncurrent", "ppe", "prepaid_expenses",
            "retained_earnings", "short_term_investments", "treasury_stock"}
      [] statement = "cash_flow" ->
           {"acquisitions", "capex", "cff", "cfi", "cfo", "change_in_cash",
            "change_in_restricted_cash", "change_working_capital",
            "debt_issued", "debt_repaid", "depreciation_amortization",
            "dividends_paid", "fx_on_cash", "net_income",
            "share_repurchases", "stock_compensation"}
      [] OTHER -> {}

\* mutant: the statement is checked, the line item is not
is_allowed_any_item(statement, line_item) ==
    /\ statement # ""
    /\ line_item # ""
    /\ statement \in ALLOWED_STATEMENTS

is_allowed(statement, line_item) ==
    /\ statement # ""
    /\ line_item # ""
    /\ statement \in ALLOWED_STATEMENTS
    /\ line_item \in ALLOWED_LINE_ITEMS(statement)

normalize_period_type(statement, period_type) ==
    IF statement \in {"income_statement", "cash_flow"} THEN "duration"
    ELSE IF statement = "balance_sheet" THEN "instant"
    ELSE IF period_type # "" THEN period_type ELSE "unknown"

\* unit.strip().upper() on the units the model uses, then the per-share aliases
StripUpper(unit) ==
    CASE unit = "usd" -> "USD"
      [] unit = "eur" -> "EUR"
      [] unit = "usd/shares" -> "USD/SHARES"
      [] OTHER -> unit

normalize_unit(unit) ==
    IF unit = "" THEN "USD"
    ELSE LET cleaned == StripUpper(unit)
         IN IF cleaned \in {"USD/SHARES", "USD/SHARE", "USD PER SHARE"}
            THEN "USDPERSHARE" ELSE cleaned

\* str.upper() on the tickers the model uses
Upper(ticker) ==
    CASE ticker = "aapl" -> "AAPL"
      [] ticker = "msft" -> "MSFT"
      [] OTHER -> ticker

\* ------------------------------------------------------------------------
\* Ordering used by sorted(..., key=(period_end, statement, line_item))
\* ------------------------------------------------------------------------
SortedStatements == <<"balance_sheet", "cash_flow", "income_statement">>

SortedLineItems ==
    <<"accounts_payable", "accounts_receivable", "accrued_expenses",
      "acquisitions", "assets", "assets_current", "assets_noncurrent",
      "capex", "cash", "cff", "cfi", "cfo", "change_in_cash",
      "change_in_restricted_cash", "change_working_capital", "cogs",
      "debt_current", "debt_issued", "debt_long_term", "debt_repaid",
      "deferred_revenue_current", "deferred_revenue_noncurrent",
      "depreciation_amortization", "dividends_paid", "ebitda", "eps_basic",
      "eps_diluted", "equity", "fx_on_cash", "goodwill", "gross_profit",
      "income_tax_expense", "intangible_assets", "interest_expense",
      "interest_income", "inventory", "liabilities", "liabilities_current",
      "liabilities_equity", "liabilities_noncurrent",
      "long_term_investments", "minority_interest", "net_income",
      "operating_expenses", "operating_income", "other_assets_current",
      "other_assets_noncurrent", "other_income_expense",
      "other_liabilities_current", "other_liabilities_noncurrent", "ppe",
      "pre_tax_income", "prepaid_expenses", "r_and_d", "retained_earnings",
      "revenue", "sga", "share_repurchases", "shares_basic",
      "shares_diluted", "shares_outstanding", "short_term_investments",
      "stock_compensation", "total_expenses", "treasury_stock">>

RankIn(seq, x) == CHOOSE i \in 1..Len(seq) : seq[i] = x

\* Python's tuple comparison of the sort keys of two canonical rows
SortKeyLess(a, b) ==
    \/ a.period_end < b.period_end
    \/ /\ a.period_end = b.period_end
       /\ \/ RankIn(SortedStatements, a.statement) < RankIn(SortedStatements, b.statement)
          \/ /\ a.statement = b.statement
             /\ RankIn(SortedLineItems, a.line_item) < RankIn(SortedLineItems, b.line_item)

\* list.sort is stable: r goes after every element that is not greater
InsertStable(sorted, r) ==
    LET before == {i \in 1..Len(sorted) : ~SortKeyLess(r, sorted[i])}
        n == IF before = {} THEN 0
             ELSE CHOOSE i \in before : \A j \in before : j <= i
    IN SubSeq(sorted, 1, n) \o <<r>> \o SubSeq(sorted, n + 1, Len(sorted))

RECURSIVE SortFrom(_, _)
SortFrom(seq, acc) ==
    IF seq = <<>> THEN acc ELSE SortFrom(Tail(seq), InsertStable(acc, Head(seq)))

SortRows(seq) == SortFrom(seq, <<>>)

\* ------------------------------------------------------------------------
\* aggregate_canonical_rows (workers/canonical.py)
\* ------------------------------------------------------------------------
duration_days(start, end) ==
    IF start = None \/ end = None THEN None ELSE end - start

\* the aggregation key of an entry of the dict `aggregated`
KeyOf(r) ==
    <<r.ticker, r.cik, r.period_end, r.period_type, r.statement, r.line_item, r.unit>>

\* the dict entry written for a key seen for the first time
FirstEntry(row, period_end) ==
    [ticker |-> Upper(row.ticker), cik |-> row.cik, accession |-> row.accession,
     period_start |-> row.period_start, period_end |-> period_end,
     period_type |-> normalize_period_type(row.statement, row.period_type),
     statement |-> row.statement, line_item |-> row.line_item,
     value |-> row.value, unit |-> normalize_unit(row.unit),
     source_fact_id |-> row.id]

\* the dict entry written when the new row's accession is greater: the
\* literal has no "period_start" key, so .get("period_start") is None
ReplacingEntry(row, period_end) ==
    [FirstEntry(row, period_end) EXCEPT !.period_start = None]

choose_current(accession, existing) ==
    IF accession # 0 /\ existing.accession # 0 THEN accession > existing.accession
    ELSE accession # 0 /\ existing.accession = 0

\* the duration / magnitude rule for income_statement and cash_flow
choose_new(row, period_end, existing) ==
    LET current_duration == duration_days(existing.period_start, existing.period_end)
        new_duration == duration_days(row.period_start, period_end)
    IN IF current_duration = None /\ new_duration # None THEN TRUE
       ELSE IF current_duration # None /\ new_duration # None
               /\ new_duration < current_duration THEN TRUE
       ELSE IF row.statement = "cash_flow"
            THEN existing.value = None \/ Abs(row.value) < Abs(existing.value)
            ELSE existing.value = None \/ Abs(row.value) > Abs(existing.value)

\* mutant: the update moves the entry to the new row's period but keeps the
\* value it had
UpdatedEntry_keeps_value(row, existing) ==
    [existing EXCEPT
       !.accession = IF row.accession # 0 THEN row.accession ELSE existing.accession,
       !.period_start = IF row.period_start # None THEN row.period_start
                        ELSE existing.period_start,
       !.source_fact_id = IF row.id # None THEN row.id ELSE existing.source_fact_id]

\* existing.update({...}) of the duration branch
UpdatedEntry(row, existing) ==
    [existing EXCEPT
       !.value = row.value,
       !.accession = IF row.accession # 0 THEN row.accession ELSE existing.accession,
       !.period_start = IF row.period_start # None THEN row.period_start
                        ELSE existing.period_start,
       !.source_fact_id = IF row.id # None THEN row.id ELSE existing.source_fact_id]

\* the balance-sheet branch: keep the larger magnitude
LargerMagnitudeEntry(row, existing) ==
    IF existing.value = None \/ Abs(row.value) > Abs(existing.value)
    THEN [existing EXCEPT
            !.value = row.value,
            !.accession = IF row.accession # 0 /\ existing.accession = 0
                          THEN row.accession ELSE existing.accession,
            !.source_fact_id = IF row.id # None THEN row.id
                               ELSE existing.source_fact_id]
    ELSE existing

\* one iteration of `for row in rows`; agg is the dict in insertion order
AggregateRow(agg, row, default_period_end) ==
    LET period_end == IF row.period_end # None THEN row.period_end
                      ELSE default_period_end
    IN IF ~is_allowed(row.statement, row.line_item) THEN agg
       ELSE IF row.value = None \/ period_end = None THEN agg
       ELSE LET entry == FirstEntry(row, period_end)
                hit == {i \in 1..Len(agg) : KeyOf(agg[i]) = KeyOf(entry)}
            IN IF hit = {} THEN Append(agg, entry)
               ELSE LET i == CHOOSE j \in hit : TRUE
                        existing == agg[i]
                    IN IF choose_current(row.accession, existing)
                       THEN [agg EXCEPT ![i] = ReplacingEntry(row, period_end)]
                       ELSE IF row.statement \in {"cash_flow", "income_statement"}
                       THEN IF choose_new(row, period_end, existing)
                            THEN [agg EXCEPT ![i] = UpdatedEntry(row, existing)]
                            ELSE agg
                       ELSE [agg EXCEPT ![i] = LargerMagnitudeEntry(row, existing)]

RECURSIVE AggregateFrom(_, _, _)
AggregateFrom(rs, default_period_end, agg) ==
    IF rs = <<>> THEN agg
    ELSE AggregateFrom(Tail(rs), default_period_end,
                       AggregateRow(agg, Head(rs), default_period_end))

aggregate_canonical_rows(rs, default_period_end) ==
    SortRows(AggregateFrom(rs, default_period_end, <<>>))

\* ------------------------------------------------------------------------
\* Derived line items (workers/canonical.py)
\* ------------------------------------------------------------------------
RESIDUAL_TOLERANCE == 1
TIE_TOLERANCE == 1

\* the period_end values of a list of rows, None excluded
PeriodsOf(rs) == {rs[i].period_end : i \in 1..Len(rs)} \ {None}

\* {item: row for row in period_rows}.get(item): the last row wins.
\* The result is <<>> (no entry) or <<row>>.
line_map_get(period_rows, item) ==
    LET hit == {i \in 1..Len(period_rows) : period_rows[i].line_item = item}
    IN IF hit = {} THEN <<>>
       ELSE <<period_rows[CHOOSE i \in hit : \A j \in hit : j <= i]>>

\* a derived row copied from a template row
DerivedRow(template, statement, line_item, value, unit) ==
    [ticker |-> template.ticker, cik |-> template.cik,
     accession |-> template.accession, period_start |-> template.period_start,
     period_end |-> template.period_end, period_type |-> template.period_type,
     statement |-> statement, line_item |-> line_item, value |-> value,
     unit |-> unit, source_fact_id |-> None]

\* `subtotal` of _residual: components of another unit or without value are skipped
RECURSIVE ComponentSubtotal(_, _, _)
ComponentSubtotal(period_rows, component_items, unit) ==
    IF component_items = <<>> THEN 0
    ELSE LET hit == line_map_get(period_rows, Head(component_items))
             rest == ComponentSubtotal(period_rows, Tail(component_items), unit)
         IN IF hit = <<>> THEN rest
            ELSE IF unit # "" /\ hit[1].unit # "" /\ hit[1].unit # unit THEN rest
            ELSE IF hit[1].value = None THEN rest
            ELSE hit[1].value + rest

residual_is_trivial(residual) == Abs(residual) <= RESIDUAL_TOLERANCE

\* _residual: the rows (none or one) it appends to `derived`
residual_rows(total_item, component_items, derived_item, period_rows) ==
    LET total == line_map_get(period_rows, total_item)
    IN IF line_map_get(period_rows, derived_item) # <<>> THEN <<>>
       ELSE IF total = <<>> THEN <<>>
       ELSE IF total[1].value = None THEN <<>>
       ELSE LET unit == total[1].unit
                residual == total[1].value
                            - ComponentSubtotal(period_rows, component_items, unit)
            IN IF residual_is_trivial(residual) THEN <<>>
               ELSE <<DerivedRow(total[1], "balance_sheet", derived_item, residual, unit)>>

ASSETS_CURRENT_COMPONENTS ==
    <<"cash", "short_term_investments", "accounts_receivable", "inventory", "prepaid_expenses">>
ASSETS_NONCURRENT_COMPONENTS == <<"ppe", "goodwill", "intangible_assets">>
LIABILITIES_CURRENT_COMPONENTS ==
    <<"accounts_payable", "accrued_expenses", "deferred_revenue_current", "debt_current">>
LIABILITIES_NONCURRENT_COMPONENTS ==
    <<"deferred_revenue_noncurrent", "debt_long_term", "minority_interest">>

\* by_period[period] of _add_balance_sheet_residuals
BalanceSheetRows(rs, period) ==
    LET Keep(r) == r.statement = "balance_sheet" /\ r.period_end = period
    IN SelectSeq(rs, Keep)

BalanceSheetDerived(rs, period) ==
    LET period_rows == BalanceSheetRows(rs, period)
    IN residual_rows("assets_current", ASSETS_CURRENT_COMPONENTS,
                     "other_assets_current", period_rows)
       \o residual_rows("assets_noncurrent", ASSETS_NONCURRENT_COMPONENTS,
                        "other_assets_noncurrent", period_rows)
       \o residual_rows("liabilities_current", LIABILITIES_CURRENT_COMPONENTS,
                        "other_liabilities_current", period_rows)
       \o residual_rows("liabilities_noncurrent", LIABILITIES_NONCURRENT_COMPONENTS,
                        "other_liabilities_noncurrent", period_rows)

\* the periods of by_period, in ascending order (the final sort makes the
\* order of `derived` irrelevant)
RECURSIVE AscendingPeriods(_)
AscendingPeriods(periods) ==
    IF periods = {} THEN <<>>
    ELSE LET p == CHOOSE x \in periods : \A y \in periods : x <= y
         IN <<p>> \o AscendingPeriods(periods \ {p})

RECURSIVE BalanceSheetDerivedAll(_, _)
BalanceSheetDerivedAll(rs, periods) ==
    IF periods = <<>> THEN <<>>
    ELSE BalanceSheetDerived(rs, Head(periods))
         \o BalanceSheetDerivedAll(rs, Tail(periods))

\* `if not derived: return rows`, else sorted(rows + derived)
WithDerived(rs, derived) ==
    IF derived = <<>> THEN rs ELSE SortRows(rs \o derived)

add_balance_sheet_residuals(rs) ==
    WithDerived(rs, BalanceSheetDerivedAll(rs, AscendingPeriods(PeriodsOf(rs))))

\* _value of the income-statement derivations
income_value(row, unit) ==
    IF row = <<>> THEN None
    ELSE IF unit # "" /\ row[1].unit # "" /\ row[1].unit # unit THEN None
    ELSE row[1].value

IncomeDerived(rs, period) ==
    LET InPeriod(r) == r.period_end = period
        period_rows == SelectSeq(rs, InPeriod)
        IsIncome(r) == r.statement = "income_statement"
        IsCash(r) == r.statement = "cash_flow"
        income_rows == SelectSeq(period_rows, IsIncome)
        cash_rows == SelectSeq(period_rows, IsCash)
        revenue == line_map_get(income_rows, "revenue")
        gross_profit == line_map_get(income_rows, "gross_profit")
        operating_expenses == line_map_get(income_rows, "operating_expenses")
        operating_income == line_map_get(income_rows, "operating_income")
        depreciation == line_map_get(cash_rows, "depreciation_amortization")
        cogs_rows ==
            IF /\ line_map_get(income_rows, "cogs") = <<>>
               /\ revenue # <<>> /\ gross_profit # <<>>
               /\ revenue[1].unit = gross_profit[1].unit
               /\ income_value(revenue, revenue[1].unit) # None
               /\ income_value(gross_profit, revenue[1].unit) # None
            THEN <<DerivedRow(revenue[1], "income_statement", "cogs",
                              revenue[1].value - gross_profit[1].value,
                              revenue[1].unit)>>
            ELSE <<>>
        cogs == line_map_get(income_rows \o cogs_rows, "cogs")
        total_rows ==
            IF /\ line_map_get(income_rows, "total_expenses") = <<>>
               /\ operating_expenses # <<>>
               /\ income_value(operating_expenses, operating_expenses[1].unit) # None
               /\ income_value(cogs, operating_expenses[1].unit) # None
            THEN <<DerivedRow(operating_expenses[1], "income_statement", "total_expenses",
                              operating_expenses[1].value + cogs[1].value,
                              operating_expenses[1].unit)>>
            ELSE <<>>
        ebitda_rows ==
            IF /\ line_map_get(income_rows, "ebitda") = <<>>
               /\ operating_income # <<>> /\ depreciation # <<>>
               /\ operating_income[1].unit = depreciation[1].unit
               /\ income_value(operating_income, operating_income[1].unit) # None
               /\ income_value(depreciation, operating_income[1].unit) # None
            THEN <<DerivedRow(operating_income[1], "income_statement", "ebitda",
                              operating_income[1].value + depreciation[1].value,
                              operating_income[1].unit)>>
            ELSE <<>>
    IN cogs_rows \o total_rows \o ebitda_rows

RECURSIVE IncomeDerivedAll(_, _)
IncomeDerivedAll(rs, periods) ==
    IF periods = <<>> THEN <<>>
    ELSE IncomeDerived(rs, Head(periods)) \o IncomeDerivedAll(rs, Tail(periods))

add_income_statement_derivations(rs) ==
    WithDerived(rs, IncomeDerivedAll(rs, AscendingPeriods(PeriodsOf(rs))))

\* _value of _add_cash_flow_residuals: None for a missing item, a row of
\* another unit than the template's, or a row without value
cash_flow_value(line_map_rows, item, base_unit) ==
    LET row == line_map_get(line_map_rows, item)
    IN IF row = <<>> THEN None
       ELSE IF base_unit # "" /\ row[1].unit # "" /\ row[1].unit # base_unit THEN None
       ELSE row[1].value

\* mutant: cfo, cfi and cff default to 0 like the other addends
totals_present_any(cfo, cfi, cff) == ~(cfo = None /\ cfi = None /\ cff = None)

\* `None not in (cfo, cfi, cff)`
totals_present(cfo, cfi, cff) == cfo # None /\ cfi # None /\ cff # None

OrZero(v) == IF v = None THEN 0 ELSE v

CashFlowDerived(rs, period) ==
    LET Keep(r) == r.statement = "cash_flow" /\ r.period_end = period
        period_rows == SelectSeq(rs, Keep)
        cfo_row == line_map_get(period_rows, "cfo")
        cfi_row == line_map_get(period_rows, "cfi")
        cff_row == line_map_get(period_rows, "cff")
        cic_row == line_map_get(period_rows, "change_in_cash")
        template == IF cfo_row # <<>> THEN cfo_row
                    ELSE IF cfi_row # <<>> THEN cfi_row
                    ELSE IF cff_row # <<>> THEN cff_row
                    ELSE cic_row
    IN IF template = <<>> THEN <<>>
       ELSE
       LET base_unit == template[1].unit
           cfo == cash_flow_value(period_rows, "cfo", base_unit)
           cfi == cash_flow_value(period_rows, "cfi", base_unit)
           cff == cash_flow_value(period_rows, "cff", base_unit)
           \* change_in_cash
           change_rows ==
               IF cic_row = <<>> /\ totals_present(cfo, cfi, cff)
               THEN <<DerivedRow(template[1], "cash_flow", "change_in_cash",
                        OrZero(cfo) + OrZero(cfi) + OrZero(cff)
                        + OrZero(cash_flow_value(period_rows, "fx_on_cash", base_unit))
                        + OrZero(cash_flow_value(period_rows, "change_in_restricted_cash", base_unit)),
                        base_unit)>>
               ELSE <<>>
           map1 == period_rows \o change_rows
           \* fx_on_cash
           change1 == cash_flow_value(map1, "change_in_cash", base_unit)
           fx_rows ==
               IF /\ line_map_get(map1, "fx_on_cash") = <<>>
                  /\ change1 # None /\ cfo # None /\ cfi # None /\ cff # None
               THEN <<DerivedRow(template[1], "cash_flow", "fx_on_cash",
                        change1 - (cfo + cfi + cff)
                        - OrZero(cash_flow_value(map1, "change_in_restricted_cash", base_unit)),
                        base_unit)>>
               ELSE <<>>
           map2 == map1 \o fx_rows
           \* change_in_restricted_cash
           change2 == cash_flow_value(map2, "change_in_cash", base_unit)
           fx2 == cash_flow_value(map2, "fx_on_cash", base_unit)
           restricted_rows ==
               IF /\ line_map_get(map2, "change_in_restricted_cash") = <<>>
                  /\ change2 # None /\ cfo # None /\ cfi # None /\ cff # None
                  /\ fx2 # None
               THEN <<DerivedRow(template[1], "cash_flow", "change_in_restricted_cash",
                        change2 - (cfo + cfi + cff + fx2), base_unit)>>
               ELSE <<>>
       IN change_rows \o fx_rows \o restricted_rows

RECURSIVE CashFlowDerivedAll(_, _)
CashFlowDerivedAll(rs, periods) ==
    IF periods = <<>> THEN <<>>
    ELSE CashFlowDerived(rs, Head(periods)) \o CashFlowDerivedAll(rs, Tail(periods))

add_cash_flow_residuals(rs) ==
    WithDerived(rs, CashFlowDerivedAll(rs, AscendingPeriods(PeriodsOf(rs))))

\* ------------------------------------------------------------------------
\* Tie checks of the worker (workers/canonical.py)
\* ------------------------------------------------------------------------
\* by_period[period][stmt][line_item]: the value of the last such row, or None
TieValue(rs, period, stmt, item) ==
    LET Keep(r) == r.period_end = period /\ r.statement = stmt /\ r.statement # ""
        hit == line_map_get(SelectSeq(rs, Keep), item)
    IN IF hit = <<>> THEN None ELSE hit[1].value

\* `cf.get(item) or 0`
TieValueOrZero(rs, period, item) ==
    LET v == TieValue(rs, period, "cash_flow", item)
    IN IF v = None THEN 0 ELSE v

balance_sheet_delta(rs, period) ==
    LET assets == TieValue(rs, period, "balance_sheet", "assets")
        liabilities == TieValue(rs, period, "balance_sheet", "liabilities")
        equity == TieValue(rs, period, "balance_sheet", "equity")
    IN IF assets # None /\ liabilities # None /\ equity # None
       THEN assets - (liabilities + equity) ELSE None

cash_flow_delta(rs, period) ==
    LET cfo == TieValue(rs, period, "cash_flow", "cfo")
        cfi == TieValue(rs, period, "cash_flow", "cfi")
        cff == TieValue(rs, period, "cash_flow", "cff")
        change_in_cash == TieValue(rs, period, "cash_flow", "change_in_cash")
    IN IF cfo # None /\ cfi # None /\ cff # None /\ change_in_cash # None
       THEN (cfo + cfi + cff + TieValueOrZero(rs, period, "fx_on_cash")
             + TieValueOrZero(rs, period, "change_in_restricted_cash"))
            - change_in_cash
       ELSE None

\* _collect_tie_violations: the set of (kind, period, delta) messages
collect_tie_violations(rs) ==
    {<<"Balance sheet tie off", p, balance_sheet_delta(rs, p)>> :
        p \in {q \in PeriodsOf(rs) : /\ balance_sheet_delta(rs, q) # None
                                     /\ Abs(balance_sheet_delta(rs, q)) > TIE_TOLERANCE}}
    \cup
    {<<"Cash flow tie off", p, cash_flow_delta(rs, p)>> :
        p \in {q \in PeriodsOf(rs) : /\ cash_flow_delta(rs, q) # None
                                     /\ Abs(cash_flow_delta(rs, q)) > TIE_TOLERANCE}}

\* ========================================================================
\* SpecAgg: aggregate_canonical_rows applied to bounded lists of raw rows
\* that compete for a few aggregation keys
\* ========================================================================
MaxRows == 3

PeriodEnd == 3

\* the line item the competing rows of a statement carry
CompetingItem(statement) ==
    CASE statement = "income_statement" -> "revenue"
      [] statement = "cash_flow" -> "cfo"
      [] OTHER -> "assets"

\* what distinguishes the competing raw rows: statement, accession,
\* period_start (None, year-to-date, quarter) and value
CompetingShapes ==
    [statement : ALLOWED_STATEMENTS, accession : {0, 1, 2},
     period_start : {None, 1, 2}, value : {1, -2}]

RawRow(id, shape) ==
    [id |-> id, ticker |-> "aapl", cik |-> "c1", accession |-> shape.accession,
     period_start |-> shape.period_start, period_end |-> PeriodEnd,
     period_type |-> "duration", statement |-> shape.statement,
     line_item |-> CompetingItem(shape.statement), value |-> shape.value,
     unit |-> "usd"]

\* the list of raw rows of a list of shapes; ids are the positions
RawRows(shapes) == [i \in 1..Len(shapes) |-> RawRow(i, shapes[i])]

StoreIdle ==
    /\ facts = <<>> /\ next_id = 1 /\ canonical = <<>> /\ pc = "idle"
    /\ txn = <<>> /\ run = <<>> /\ result = [op |-> "none"]

storeVars == <<facts, next_id, canonical, pc, txn, run, result>>

InitAgg ==
    /\ StoreIdle
    /\ TieIdle
    /\ CallIdle
    /\ JobIdle
    /\ SessionIdle
    /\ SchedulerIdle
    /\ \E n \in 0..MaxRows : \E shapes \in [1..n -> CompetingShapes] :
          rows = RawRows(shapes)
    /\ aggregated = <<>>
    /\ stage = "input"

Aggregate ==
    /\ stage = "input"
    /\ aggregated' = aggregate_canonical_rows(rows, None)
    /\ stage' = "aggregated"
    /\ UNCHANGED <<rows, storeVars, tieVars, callVars, jobVars, sessionVars, scheduler>>

NextAgg == Aggregate

SpecAgg == InitAgg /\ [][NextAgg]_vars

\* the raw rows that compete for the key of canonical row c
GroupOf(rs, c) ==
    {i \in 1..Len(rs) :
        /\ is_allowed(rs[i].statement, rs[i].line_item)
        /\ rs[i].value # None /\ rs[i].period_end # None
        /\ KeyOf(FirstEntry(rs[i], rs[i].period_end)) = KeyOf(c)}

\* C3: for a group of raw facts sharing one key, all with non-empty
\* accessions, the canonical row has the value, accession and source_fact_id
\* of a fact of the greatest accession, whatever the input order and the
\* durations of the older facts.
C3_LatestAccessionWins ==
    stage = "aggregated" =>
      \A k \in 1..Len(aggregated) :
        LET c == aggregated[k]
            group == GroupOf(rows, c)
        IN (\A i \in group : rows[i].accession # 0) =>
             \E i \in group :
               /\ \A j \in group : rows[j].accession <= rows[i].accession
               /\ c.value = rows[i].value
               /\ c.accession = rows[i].accession
               /\ c.source_fact_id = rows[i].id

\* C4: when the facts competing for an income_statement or cash_flow key all
\* come from one accession, value and period_start of the canonical row come
\* from one raw fact, which has the shortest duration among the facts that
\* have a period_start.
C4_ShortestDurationWins ==
    stage = "aggregated" =>
      \A k \in 1..Len(aggregated) :
        LET c == aggregated[k]
            group == GroupOf(rows, c)
            dated == {i \in group : rows[i].period_start # None}
        IN (/\ c.statement \in {"income_statement", "cash_flow"}
            /\ \A i, j \in group : rows[i].accession = rows[j].accession
            /\ \A i \in group : rows[i].accession # 0) =>
             \E i \in group :
               /\ c.value = rows[i].value
               /\ c.period_start = rows[i].period_start
               /\ dated # {} =>
                    /\ i \in dated
                    /\ \A j \in dated :
                         duration_days(rows[i].period_start, rows[i].period_end)
                         <= duration_days(rows[j].period_start, rows[j].period_end)

\* ========================================================================
\* SpecDerive: the aggregation and derivation steps of
\* materialize_canonical_for_ticker applied, in the code's order, to the raw
\* rows of a small filing: a balance sheet, a cash-flow statement and two
\* income-statement rows
\* ========================================================================
Absent == [present |-> FALSE]

Pick(statement, line_item, value, unit, period_end) ==
    [present |-> TRUE, statement |-> statement, line_item |-> line_item,
     value |-> value, unit |-> unit, period_end |-> period_end]

\* the raw rows of a list of picks, absent ones left out; ids are the slots
RECURSIVE PickedRows(_, _)
PickedRows(picks, slot) ==
    IF slot > Len(picks) THEN <<>>
    ELSE (IF picks[slot].present
          THEN <<[id |-> slot, ticker |-> "aapl", cik |-> "c1", accession |-> 1,
                  period_start |-> IF picks[slot].statement = "balance_sheet"
                                   THEN None ELSE 1,
                  period_end |-> picks[slot].period_end,
                  period_type |-> "duration",
                  statement |-> picks[slot].statement,
                  line_item |-> picks[slot].line_item,
                  value |-> picks[slot].value, unit |-> picks[slot].unit]>>
          ELSE <<>>) \o PickedRows(picks, slot + 1)

BS(line_item, value, unit, period_end) ==
    Pick("balance_sheet", line_item, value, unit, period_end)
CF(line_item, value, unit) == Pick("cash_flow", line_item, value, unit, PeriodEnd)
IS(line_item, value) == Pick("income_statement", line_item, value, "USD", PeriodEnd)

NextPeriodEnd == PeriodEnd + 1

\* the balance sheets of the model: a total, its components (cash possibly
\* twice, in another unit or at another period end) and a reported residual
BalanceSheetPicks ==
    {Absent, BS("assets_current", 100, "USD", PeriodEnd)}
    \X {Absent, BS("cash", 40, "USD", PeriodEnd), BS("cash", 40, "EUR", PeriodEnd)}
    \X {Absent, BS("cash", 10, "EUR", PeriodEnd), BS("cash", 40, "USD", NextPeriodEnd)}
    \X {Absent, BS("inventory", 58, "USD", PeriodEnd), BS("inventory", 59, "USD", PeriodEnd)}
    \X {Absent, BS("other_assets_current", 7, "USD", PeriodEnd)}

PlainBalanceSheets ==
    {<<Absent, Absent, Absent, Absent, Absent>>,
     <<BS("assets_current", 100, "USD", PeriodEnd), BS("cash", 40, "USD", PeriodEnd),
       Absent, Absent, Absent>>}

\* the cash-flow statements of the model (cfi possibly twice, in another unit)
CashFlowPicks ==
    {Absent, CF("cfo", 50, "USD"), CF("cfo", 50, "EUR")}
    \X {Absent, CF("cfi", -10, "USD")}
    \X {Absent, CF("cfi", -1, "EUR")}
    \X {Absent, CF("cff", -5, "USD")}
    \X {Absent, CF("fx_on_cash", 2, "USD")}
    \X {Absent, CF("change_in_restricted_cash", 3, "USD")}
    \X {Absent, CF("change_in_cash", 40, "USD"), CF("change_in_cash", 30, "USD")}

PlainCashFlows ==
    {<<Absent, Absent, Absent, Absent, Absent, Absent, Absent>>,
     <<CF("cfo", 50, "USD"), CF("cfi", -10, "USD"), Absent, CF("cff", -5, "USD"),
       Absent, Absent, Absent>>}

IncomePicks ==
    {<<Absent, Absent>>, <<IS("revenue", 100), IS("gross_profit", 60)>>}

\* every balance sheet with a plain cash-flow statement, and every cash-flow
\* statement with a plain balance sheet
InitDerive ==
    /\ StoreIdle
    /\ TieIdle
    /\ CallIdle
    /\ JobIdle
    /\ SessionIdle
    /\ SchedulerIdle
    /\ \E balance_sheet \in BalanceSheetPicks, cash_flow \in CashFlowPicks,
          income \in IncomePicks :
          /\ balance_sheet \in PlainBalanceSheets \/ cash_flow \in PlainCashFlows
          /\ rows = PickedRows(balance_sheet \o cash_flow \o income, 1)
    /\ aggregated = <<>>
    /\ stage = "input"

AddBalanceSheetResiduals ==
    /\ stage = "aggregated"
    /\ aggregated' = add_balance_sheet_residuals(aggregated)
    /\ stage' = "balance_sheet"
    /\ UNCHANGED <<rows, storeVars, tieVars, callVars, jobVars, sessionVars, scheduler>>

AddIncomeStatementDerivations ==
    /\ stage = "balance_sheet"
    /\ aggregated' = add_income_statement_derivations(aggregated)
    /\ stage' = "income_statement"
    /\ UNCHANGED <<rows, storeVars, tieVars, callVars, jobVars, sessionVars, scheduler>>

AddCashFlowResiduals ==
    /\ stage = "income_statement"
    /\ aggregated' = add_cash_flow_residuals(aggregated)
    /\ stage' = "cash_flow"
    /\ UNCHANGED <<rows, storeVars, tieVars, callVars, jobVars, sessionVars, scheduler>>

NextDerive ==
    \/ Aggregate
    \/ AddBalanceSheetResiduals
    \/ AddIncomeStatementDerivations
    \/ AddCashFlowResiduals

SpecDerive == InitDerive /\ [][NextDerive]_vars

\* ------------------------------------------------------------------------
\* Balance-sheet residuals
\* ------------------------------------------------------------------------
RECURSIVE SumValuesAt(_, _)
SumValuesAt(rs, indices) ==
    IF indices = {} THEN 0
    ELSE LET i == CHOOSE x \in indices : TRUE
         IN rs[i].value + SumValuesAt(rs, indices \ {i})

CountOf(rs, r) == Cardinality({i \in DOMAIN rs : rs[i] = r})

\* the rows of a sequence that are not in another one
AddedTo(before, after) ==
    {j \in DOMAIN after : \A i \in DOMAIN before : before[i] # after[j]}

ResidualRules ==
    {[total |-> "assets_current", derived |-> "other_assets_current",
      components |-> {"cash", "short_term_investments", "accounts_receivable",
                      "inventory", "prepaid_expenses"}],
     [total |-> "assets_noncurrent", derived |-> "other_assets_noncurrent",
      components |-> {"ppe", "goodwill", "intangible_assets"}],
     [total |-> "liabilities_current", derived |-> "other_liabilities_current",
      components |-> {"accounts_payable", "accrued_expenses",
                      "deferred_revenue_current", "debt_current"}],
     [total |-> "liabilities_noncurrent", derived |-> "other_liabilities_noncurrent",
      components |-> {"deferred_revenue_noncurrent", "debt_long_term",
                      "minority_interest"}]}

ItemRowsAt(rs, statement, period, items) ==
    {i \in DOMAIN rs : /\ rs[i].statement = statement
                       /\ rs[i].period_end = period
                       /\ rs[i].line_item \in items}

\* C8: _add_balance_sheet_residuals keeps every reported row as it is and
\* once, adds only rows without source fact, and adds the residual row of a
\* total exactly when the total is present, the residual line item is absent
\* for the period and the residual (the total minus the sum of the present
\* components of the total's unit) is larger than RESIDUAL_TOLERANCE in
\* magnitude.
C8_ResidualOfSameUnitComponents ==
    stage = "balance_sheet" =>
        LET before == aggregate_canonical_rows(rows, None)
            added == AddedTo(before, aggregated)
        IN /\ \A i \in DOMAIN before :
                  CountOf(aggregated, before[i]) = CountOf(before, before[i])
           /\ Len(aggregated) = Len(before) + Cardinality(added)
           /\ \A j \in added :
                  /\ aggregated[j].source_fact_id = None
                  /\ aggregated[j].statement = "balance_sheet"
                  /\ \E rule \in ResidualRules : aggregated[j].line_item = rule.derived
           /\ \A rule \in ResidualRules : \A period \in PeriodsOf(before) :
                  LET totals == ItemRowsAt(before, "balance_sheet", period, {rule.total})
                      reported == ItemRowsAt(before, "balance_sheet", period, {rule.derived})
                      added_here == {j \in added :
                                        /\ aggregated[j].period_end = period
                                        /\ aggregated[j].line_item = rule.derived}
                  IN /\ totals = {} => added_here = {}
                     /\ \A t \in totals :
                            LET same_unit == {i \in ItemRowsAt(before, "balance_sheet",
                                                               period, rule.components) :
                                                 before[i].unit = before[t].unit}
                                residual == before[t].value - SumValuesAt(before, same_unit)
                            IN IF reported = {} /\ Abs(residual) > RESIDUAL_TOLERANCE
                               THEN /\ Cardinality(added_here) = 1
                                    /\ \A j \in added_here :
                                           /\ aggregated[j].value = residual
                                           /\ aggregated[j].unit = before[t].unit
                               ELSE added_here = {}

\* ------------------------------------------------------------------------
\* Derived change_in_cash
\* ------------------------------------------------------------------------
\* the list _add_cash_flow_residuals receives
CashFlowInput ==
    add_income_statement_derivations(
        add_balance_sheet_residuals(aggregate_canonical_rows(rows, None)))

CashAddends == {"cfo", "cfi", "cff", "fx_on_cash", "change_in_restricted_cash"}

CashFlowItems == CashAddends \cup {"change_in_cash"}

\* a period whose cash-flow rows have one row per line item
OneRowPerCashItem(rs, period) ==
    \A i, j \in ItemRowsAt(rs, "cash_flow", period, CashFlowItems) :
        rs[i].line_item = rs[j].line_item => i = j

DerivedChangeInCash(period) ==
    {j \in DOMAIN aggregated : /\ aggregated[j].statement = "cash_flow"
                               /\ aggregated[j].period_end = period
                               /\ aggregated[j].line_item = "change_in_cash"
                               /\ aggregated[j].source_fact_id = None}

MaxFacts == 3

HARD_FAIL_TIES == FALSE

\* ---- arguments of persist_fact the model draws from
FactArgs(accession, cik, ticker, period_start, period_end, statement, line_item, value) ==
    [accession |-> accession, cik |-> cik, ticker |-> ticker,
     period_start |-> period_start, period_end |-> period_end,
     period_type |-> "duration", statement |-> statement,
     line_item |-> line_item, value |-> value, unit |-> "usd"]

PersistCalls ==
    {FactArgs(2, "c1", "aapl", 1, PeriodEnd, "income_statement", "revenue", 100),
     FactArgs(1, "c1", "aapl", 2, PeriodEnd, "income_statement", "revenue", 50),
     FactArgs(1, "c2", "aapl", 2, PeriodEnd, "income_statement", "revenue", 50),
     FactArgs(1, "c1", "aapl", 1, None, "income_statement", "revenue", 70),
     FactArgs(1, "c9", "msft", 1, PeriodEnd, "income_statement", "revenue", 80),
     FactArgs(1, "c1", "aapl", 1, PeriodEnd, "income_statement", "unknown", 5),
     FactArgs(1, "c1", "aapl", None, PeriodEnd, "balance_sheet", "revenue", 5)}

\* ---- filings parse_and_store is given: the facts its parsers return
BalanceSheetFiling ==
    [accession |-> 1, cik |-> "c1", ticker |-> "aapl",
     pending |-> <<FactArgs(1, "c1", "aapl", None, PeriodEnd, "balance_sheet", "assets", 100),
                   FactArgs(1, "c1", "aapl", None, PeriodEnd, "balance_sheet", "liabilities", 60),
                   FactArgs(1, "c1", "aapl", None, PeriodEnd, "balance_sheet", "unknown", 9),
                   FactArgs(1, "c1", "aapl", None, PeriodEnd, "balance_sheet", "equity", 30)>>]

ParsedFilings ==
    {BalanceSheetFiling,
     [BalanceSheetFiling EXCEPT !.pending = <<>>],
     [BalanceSheetFiling EXCEPT !.pending = <<BalanceSheetFiling.pending[3]>>]}

\* table filings: accession 1 was filed on day 5, accession 2 has no row
FiledAt(accession) == IF accession = 1 THEN 5 ELSE None

Tickers == {"aapl", "msft"}

\* ---- persist_fact
\* the row INSERT INTO facts writes
FactRow(id, args) ==
    [id |-> id, accession |-> args.accession, cik |-> args.cik,
     ticker |-> Upper(args.ticker), period_start |-> args.period_start,
     period_end |-> args.period_end, period_type |-> args.period_type,
     statement |-> args.statement, line_item |-> args.line_item,
     value |-> args.value, unit |-> args.unit]

PersistFact ==
    /\ pc = "idle"
    /\ \E args \in PersistCalls :
          IF ~is_allowed(args.statement, args.line_item)
          THEN /\ result' = [op |-> "persist_fact", statement |-> args.statement,
                             line_item |-> args.line_item, value |-> FALSE]
               /\ UNCHANGED <<facts, next_id>>
          ELSE /\ next_id <= MaxFacts
               /\ \A i \in DOMAIN facts : facts[i] # FactRow(facts[i].id, args)
               /\ facts' = Append(facts, FactRow(next_id, args))
               /\ next_id' = next_id + 1
               /\ result' = [op |-> "persist_fact", statement |-> args.statement,
                             line_item |-> args.line_item, value |-> TRUE]
    /\ UNCHANGED <<canonical, pc, txn, run, rows, aggregated, stage, tieVars, callVars, jobVars, sessionVars, scheduler>>

\* ---- parse_and_store
\* mutant: nothing is purged
purge_existing_facts_nothing(table, accession, ticker) == table

\* _purge_existing_facts
purge_existing_facts(table, accession, ticker) ==
    LET Keep(r) == ~(r.accession = accession /\ r.ticker = Upper(ticker))
    IN SelectSeq(table, Keep)

\* the persist_fact calls of the loop over allowed_facts
RECURSIVE PersistAll(_, _, _)
PersistAll(table, id, allowed_facts) ==
    IF allowed_facts = <<>> THEN table
    ELSE PersistAll(
            IF is_allowed(Head(allowed_facts).statement, Head(allowed_facts).line_item)
            THEN Append(table, FactRow(id, Head(allowed_facts))) ELSE table,
            id + 1, Tail(allowed_facts))

\* parse_and_store of a file that parses to one of `parsed_files`
ParseAndStoreFrom(parsed_files) ==
    /\ pc = "idle"
    /\ \E filing \in parsed_files :
          LET Allowed(f) == is_allowed(f.statement, f.line_item)
              allowed_facts == SelectSeq(filing.pending, Allowed)
              dropped == Len(filing.pending) - Len(allowed_facts)
          IN IF allowed_facts = <<>>
             THEN /\ result' = [op |-> "parse_and_store", pending |-> filing.pending,
                                inserted |-> 0, dropped |-> dropped]
                  /\ UNCHANGED <<facts, next_id>>
             ELSE LET purged == purge_existing_facts(facts, filing.accession,
                                                     filing.ticker)
                      stored == PersistAll(purged, next_id, allowed_facts)
                      inserted == Len(stored) - Len(purged)
                  IN /\ next_id + Len(allowed_facts) - 1 <= MaxFacts
                     /\ facts' = stored
                     /\ next_id' = next_id + Len(allowed_facts)
                     /\ result' = [op |-> "parse_and_store",
                                   pending |-> filing.pending,
                                   inserted |-> inserted,
                                   dropped |-> dropped + Len(allowed_facts) - inserted]
    /\ UNCHANGED <<canonical, pc, txn, run, rows, aggregated, stage, tieVars, callVars, jobVars, sessionVars, scheduler>>

ParseAndStore == ParseAndStoreFrom(ParsedFilings)

\* ---- materialize_canonical_for_ticker
\* the SELECT on facts: the ticker's rows with a value, in heap order (every
\* stored fact has a statement and a line item: persist_fact's guard)
SelectFacts(table, t) ==
    LET Keep(r) == r.ticker = t /\ r.value # None
    IN SelectSeq(table, Keep)

\* the orders in which the SELECT, which has no ORDER BY, may return rows
Orders(seq) ==
    LET n == Len(seq)
        perms == {f \in [1..n -> 1..n] : \A i, j \in 1..n : f[i] = f[j] => i = j}
    IN {[i \in 1..n |-> seq[f[i]]] : f \in perms}

\* _infer_default_period_end: the filing date of the accession whose facts
\* were created last
infer_default_period_end(table, t) ==
    LET mine == {i \in DOMAIN table : table[i].ticker = t}
    IN IF mine = {} THEN None
       ELSE FiledAt(table[CHOOSE i \in mine : \A j \in mine : j <= i].accession)

\* the list materialize_canonical_for_ticker inserts for the fetched rows
Materialized(fact_rows, table, t) ==
    LET first == aggregate_canonical_rows(fact_rows, None)
        agg == IF first # <<>> THEN first
               ELSE aggregate_canonical_rows(fact_rows, infer_default_period_end(table, t))
    IN IF agg = <<>> THEN agg
       ELSE add_cash_flow_residuals(
               add_income_statement_derivations(add_balance_sheet_residuals(agg)))

\* DELETE FROM canonical_facts WHERE ticker = t
DeleteTicker(table, t) ==
    LET Keep(r) == r.ticker # t
    IN SelectSeq(table, Keep)

\* mutant: the connection commits each statement as it runs
rollback_keeps_writes(committed, uncommitted) == uncommitted

\* leaving `with get_conn() as conn` by an exception rolls the transaction back
rollback(committed, uncommitted) == committed

\* the strict_ties that reaches materialize_canonical_for_ticker: an omitted
\* flag of run_materialization is its default, True
strict_ties_passed(entry, flag) ==
    IF entry = "run_materialization" /\ flag = "None" THEN "True" ELSE flag

\* `enforce` of log_tie_checks
enforce(strict) == IF strict = "None" THEN HARD_FAIL_TIES ELSE strict = "True"

\* the calls that start a materialization: the function called and the
\* strict flag given to it ("None": omitted)
MaterializeCalls ==
    {<<"materialize_canonical_for_ticker", "None">>,
     <<"run_materialization", "None">>,
     <<"run_materialization", "True">>,
     <<"run_materialization", "False">>}

\* SELECT the facts, DELETE the ticker's canonical rows, aggregate and derive
Begin ==
    /\ pc = "idle"
    /\ \E ticker \in Tickers, call \in MaterializeCalls :
       \E fact_rows \in Orders(SelectFacts(facts, Upper(ticker))) :
          /\ run' = [ticker |-> Upper(ticker), entry |-> call[1], flag |-> call[2],
                     strict_ties |-> strict_ties_passed(call[1], call[2]),
                     snapshot |-> canonical,
                     aggregated |-> Materialized(fact_rows, facts, Upper(ticker))]
          /\ txn' = DeleteTicker(canonical, Upper(ticker))
    /\ pc' = "deleted"
    /\ UNCHANGED <<facts, next_id, canonical, result, rows, aggregated, stage, tieVars, callVars, jobVars, sessionVars, scheduler>>

\* the exception that leaves materialize_canonical_for_ticker
Raised(cause) ==
    [op |-> "materialize", ticker |-> run.ticker, status |-> "raised",
     cause |-> cause]

\* cur.executemany(insert_sql, params)
Insert ==
    /\ pc = "deleted"
    /\ txn' = txn \o run.aggregated
    /\ pc' = "inserted"
    /\ UNCHANGED <<facts, next_id, canonical, run, result, rows, aggregated, stage, tieVars, callVars, jobVars, sessionVars, scheduler>>

\* the INSERT fails: the exception leaves the `with` block
InsertFails ==
    /\ pc = "deleted"
    /\ run.aggregated # <<>>
    /\ canonical' = rollback(canonical, txn)
    /\ txn' = <<>>
    /\ run' = <<>>
    /\ pc' = "idle"
    /\ result' = Raised("insert")
    /\ UNCHANGED <<facts, next_id, rows, aggregated, stage, tieVars, callVars, jobVars, sessionVars, scheduler>>

\* log_tie_checks, then conn.commit() unless it raised
LogTieChecksAndCommit ==
    /\ pc = "inserted"
    /\ IF enforce(run.strict_ties) /\ collect_tie_violations(run.aggregated) # {}
       THEN /\ canonical' = rollback(canonical, txn)
            /\ result' = Raised("tie")
       ELSE /\ canonical' = txn
            /\ result' = [op |-> "materialize", ticker |-> run.ticker,
                          status |-> "returned", inserted |-> Len(run.aggregated)]
    /\ txn' = <<>>
    /\ run' = <<>>
    /\ pc' = "idle"
    /\ UNCHANGED <<facts, next_id, rows, aggregated, stage, tieVars, callVars, jobVars, sessionVars, scheduler>>

Init ==
    /\ StoreIdle
    /\ TieIdle
    /\ CallIdle
    /\ JobIdle
    /\ SessionIdle
    /\ SchedulerIdle
    /\ rows = <<>> /\ aggregated = <<>> /\ stage = "store"

Next ==
    \/ PersistFact
    \/ ParseAndStore
    \/ Begin
    \/ Insert
    \/ InsertFails
    \/ LogTieChecksAndCommit

Spec == Init /\ [][Next]_vars

\* ------------------------------------------------------------------------
\* Properties of the store
\* ------------------------------------------------------------------------
RowsOfTicker(table, t) == {table[i] : i \in {j \in DOMAIN table : table[j].ticker = t}}

\* C1: canonical_facts holds at most one row per (ticker, period_end,
\* period_type, statement, line_item, unit), derived rows included.
C1_OneRowPerKey ==
    \A i, j \in DOMAIN canonical :
        (/\ canonical[i].ticker = canonical[j].ticker
         /\ canonical[i].period_end = canonical[j].period_end
         /\ canonical[i].period_type = canonical[j].period_type
         /\ canonical[i].statement = canonical[j].statement
         /\ canonical[i].line_item = canonical[j].line_item
         /\ canonical[i].unit = canonical[j].unit) => i = j

\* C2: a run that commits right after a committed run for the same ticker,
\* with no call that touches the facts in between, leaves the ticker's
\* canonical rows as they were, whatever order the facts query returned.
C2_SecondRunSameRows ==
    [][(/\ pc = "inserted"
        /\ result.op = "materialize"
        /\ result.status = "returned"
        /\ result.ticker = run.ticker
        /\ result'.status = "returned")
       => RowsOfTicker(canonical', run.ticker) = RowsOfTicker(canonical, run.ticker)]_vars

\* C5: when a run fails after its DELETE, by an insert error or by a tie
\* violation raised in strict mode, canonical_facts is afterwards what it was
\* when the run started; and readers see that table all through the run.
C5_FailureKeepsPriorRows ==
    /\ [](pc # "idle" => canonical = run.snapshot)
    /\ [][(pc # "idle" /\ result'.op = "materialize" /\ result'.status = "raised")
          => canonical' = run.snapshot]_vars

\* a strict run has failed on a tie violation while the ticker had canonical rows
C5_Witness ==
    /\ pc = "idle"
    /\ result.op = "materialize"
    /\ result.status = "raised"
    /\ result.cause = "tie"
    /\ RowsOfTicker(canonical, result.ticker) # {}

\* C6: a run raises on a tie violation only when its caller gave the strict
\* flag; a run started without a flag commits the new rows and returns the
\* inserted count.
C6_RaisesOnlyWhenStrictRequested ==
    [][(pc = "inserted" /\ pc' = "idle")
       => /\ result'.status = "raised" => run.flag = "True"
          /\ run.flag = "None" => /\ result'.status = "returned"
                                  /\ result'.inserted = Len(run.aggregated)
                                  /\ canonical' = txn]_vars

InAllowList(r) ==
    /\ r.statement \in ALLOWED_STATEMENTS
    /\ r.line_item \in ALLOWED_LINE_ITEMS(r.statement)

Disallowed(pending) == {i \in DOMAIN pending : ~InAllowList(pending[i])}

\* C7: every row of facts and of canonical_facts is inside the allow-list;
\* persist_fact on a pair outside it returns false and inserts nothing, and
\* parse_and_store counts every such fact of the filing in `dropped`.
C7_AllowListSafety ==
    /\ [](\A table \in {facts, canonical, txn} : \A i \in DOMAIN table :
              InAllowList(table[i]))
    /\ [][(/\ pc = "idle" /\ pc' = "idle"
           /\ result'.op = "persist_fact"
           /\ ~InAllowList(result'))
          => (result'.value = FALSE /\ facts' = facts)]_vars
    /\ [][(pc = "idle" /\ pc' = "idle" /\ result'.op = "parse_and_store")
          => result'.dropped = Cardinality(Disallowed(result'.pending))]_vars

\* persist_fact has refused a pair outside the allow-list while both tables
\* hold rows
C7_Witness ==
    /\ result.op = "persist_fact"
    /\ result.value = FALSE
    /\ ~InAllowList(result)
    /\ facts # <<>>
    /\ canonical # <<>>

\* ========================================================================
\* SpecTie: compute_tie_checks of the API applied to the metrics of one or
\* two periods
\* ========================================================================
BS_STATUS_TOLERANCE == 1

\* metrics[period]["values"].get(line_item, {}): a missing entry has no field
NoEntry == [present |-> FALSE, value |-> None, start |-> None, period_type |-> ""]

Entry(value, start) ==
    [present |-> TRUE, value |-> value, start |-> start, period_type |-> "duration"]

TieLineItems ==
    {"assets", "liabilities", "equity", "liabilities_equity", "cfo", "cfi", "cff",
     "fx_on_cash", "change_in_restricted_cash", "cash", "change_in_cash"}

\* sorted(metrics.keys(), reverse=True)
RECURSIVE DescendingPeriods(_)
DescendingPeriods(periods) ==
    IF periods = {} THEN <<>>
    ELSE LET p == CHOOSE x \in periods : \A y \in periods : y <= x
         IN <<p>> \o DescendingPeriods(periods \ {p})

\* _duration_days of summary_utils
tie_duration_days(start, end) ==
    IF start = None \/ end = None THEN None ELSE end - start

\* `.get("period_type") or "duration"`
PeriodTypeOrDuration(entry) ==
    IF entry.period_type = "" THEN "duration" ELSE entry.period_type

\* quarterized(line_item, idx)
quarterized(m, ordered_periods, line_item, idx) ==
    LET period == ordered_periods[idx]
        current == m[period][line_item]
    IN IF current.value = None THEN None
       ELSE IF idx + 1 > Len(ordered_periods) THEN current.value
       ELSE LET prev_period == ordered_periods[idx + 1]
                prev == m[prev_period][line_item]
            IN IF prev.value = None THEN current.value
               ELSE IF /\ PeriodTypeOrDuration(current) = "duration"
                       /\ PeriodTypeOrDuration(prev) = "duration"
                       /\ \/ (current.start # None /\ prev.start # None
                              /\ current.start = prev.start)
                          \/ current.start = None
                          \/ prev.start = None
                    THEN current.value - prev.value
               ELSE LET current_duration == tie_duration_days(current.start, period)
                        prev_duration == tie_duration_days(prev.start, prev_period)
                    IN IF /\ current_duration # None /\ prev_duration # None
                          /\ current_duration > prev_duration + 7
                       THEN current.value - prev.value
                       ELSE current.value

bs_delta_of(assets, liabilities, equity, liabilities_equity) ==
    IF liabilities_equity # None /\ assets # None THEN assets - liabilities_equity
    ELSE IF assets # None /\ liabilities # None /\ equity # None
         THEN assets - (liabilities + equity)
         ELSE None

\* mutant: a cash-flow tie that is off fails the period too
status_of_any_tie(bs_delta, cf_tie) ==
    IF \/ (bs_delta # None /\ Abs(bs_delta) > BS_STATUS_TOLERANCE)
       \/ (cf_tie # None /\ Abs(cf_tie) > BS_STATUS_TOLERANCE)
    THEN "fail" ELSE "ok"

status_of(bs_delta, cf_tie) ==
    IF bs_delta # None /\ Abs(bs_delta) > BS_STATUS_TOLERANCE THEN "fail" ELSE "ok"

\* one iteration of the loop over ordered_periods
TieOf(m, ordered_periods, idx) ==
    LET period == ordered_periods[idx]
        vals == m[period]
        bs_delta == bs_delta_of(vals["assets"].value, vals["liabilities"].value,
                                vals["equity"].value, vals["liabilities_equity"].value)
        cfo == quarterized(m, ordered_periods, "cfo", idx)
        cfi == quarterized(m, ordered_periods, "cfi", idx)
        cff == quarterized(m, ordered_periods, "cff", idx)
        fx_on_cash == OrZero(quarterized(m, ordered_periods, "fx_on_cash", idx))
        change_rc == OrZero(quarterized(m, ordered_periods,
                                        "change_in_restricted_cash", idx))
        cf_sum == IF cfo # None /\ cfi # None /\ cff # None
                  THEN cfo + cfi + cff + fx_on_cash + change_rc ELSE None
        prev_cash == IF idx + 1 > Len(ordered_periods) THEN None
                     ELSE m[ordered_periods[idx + 1]]["cash"].value
        curr_cash == vals["cash"].value
        cash_delta == IF vals["change_in_cash"].present
                      THEN vals["change_in_cash"].value
                      ELSE IF curr_cash # None /\ prev_cash # None
                           THEN curr_cash - prev_cash ELSE None
        cf_tie == IF cf_sum # None /\ cash_delta # None THEN cf_sum - cash_delta
                  ELSE None
    IN [period_end |-> period, bs_tie |-> bs_delta, cf_sum |-> cf_sum,
        cash_delta |-> cash_delta, cf_tie |-> cf_tie,
        status |-> status_of(bs_delta, cf_tie)]

compute_tie_checks(m) ==
    LET ordered_periods == DescendingPeriods(DOMAIN m)
    IN [period \in DOMAIN m |->
           TieOf(m, ordered_periods,
                 CHOOSE idx \in 1..Len(ordered_periods) : ordered_periods[idx] = period)]

\* ---- the metrics the model draws from: a latest period and, optionally,
\* the period before it
PreviousPeriod == 100
LatestPeriod == 200

OptionalEntry(values, start) == {NoEntry} \cup {Entry(v, start) : v \in values}

\* cfo, cfi, cff of a period: missing, or reported with a common start
Flows(cfo, cfi, cff, start) ==
    [cfo |-> Entry(cfo, start), cfi |-> Entry(cfi, start), cff |-> Entry(cff, start)]

NoFlows == [cfo |-> NoEntry, cfi |-> NoEntry, cff |-> NoEntry]

Values(assets, liabilities, equity, liabilities_equity, flows, fx_on_cash, cash, change_in_cash) ==
    [item \in TieLineItems |->
        CASE item = "assets" -> assets
          [] item = "liabilities" -> liabilities
          [] item = "equity" -> equity
          [] item = "liabilities_equity" -> liabilities_equity
          [] item = "cfo" -> flows.cfo
          [] item = "cfi" -> flows.cfi
          [] item = "cff" -> flows.cff
          [] item = "fx_on_cash" -> fx_on_cash
          [] item = "change_in_restricted_cash" -> NoEntry
          [] item = "cash" -> cash
          [] item = "change_in_cash" -> change_in_cash]

LatestValues ==
    {Values(assets, liabilities, equity, liabilities_equity, flows, fx_on_cash,
            cash, change_in_cash) :
        assets \in OptionalEntry({10000}, None),
        liabilities \in OptionalEntry({6000}, None),
        equity \in OptionalEntry({3000, 4000}, None),
        liabilities_equity \in OptionalEntry({10000, 9999, 9998}, None),
        flows \in {NoFlows, Flows(100, -30, -10, 10), Flows(40, -10, -5, 110)},
        fx_on_cash \in OptionalEntry({5}, 10),
        cash \in OptionalEntry({140}, None),
        change_in_cash \in OptionalEntry({25}, None)}

PreviousValues ==
    {Values(balance.assets, balance.liabilities, balance.equity, NoEntry, flows,
            NoEntry, cash, NoEntry) :
        balance \in {[assets |-> NoEntry, liabilities |-> NoEntry, equity |-> NoEntry],
                     [assets |-> Entry(500, None), liabilities |-> Entry(300, None),
                      equity |-> Entry(100, None)]},
        flows \in {NoFlows, Flows(60, -20, -5, 10)},
        cash \in OptionalEntry({100}, None)}

InitTie ==
    /\ StoreIdle
    /\ CallIdle
    /\ JobIdle
    /\ SessionIdle
    /\ SchedulerIdle
    /\ rows = <<>> /\ aggregated = <<>>
    /\ stage = "metrics"
    /\ ties = <<>>
    /\ \E latest \in LatestValues :
          \/ metrics = [period \in {LatestPeriod} |-> latest]
          \/ \E previous \in PreviousValues :
                metrics = [period \in {PreviousPeriod, LatestPeriod} |->
                              IF period = LatestPeriod THEN latest ELSE previous]

ComputeTieChecks ==
    /\ stage = "metrics"
    /\ ties' = compute_tie_checks(metrics)
    /\ stage' = "ties"
    /\ UNCHANGED <<metrics, rows, aggregated, storeVars, callVars, jobVars, sessionVars, scheduler>>

NextTie == ComputeTieChecks

SpecTie == InitTie /\ [][NextTie]_vars

EntryValue(period, item) == metrics[period][item].value

\* C10: for each period bs_tie is assets - liabilities_equity when both are
\* present, otherwise assets - (liabilities + equity) when all three are
\* present, otherwise null; status is "fail" exactly when bs_tie is not null
\* and larger than 0.01 in magnitude, and "ok" otherwise, whatever cf_tie is.
C10_BalanceSheetTieAndStatus ==
    stage = "ties" =>
        /\ DOMAIN ties = DOMAIN metrics
        /\ \A period \in DOMAIN metrics :
              LET assets == EntryValue(period, "assets")
                  liabilities == EntryValue(period, "liabilities")
                  equity == EntryValue(period, "equity")
                  liabilities_equity == EntryValue(period, "liabilities_equity")
                  tie == ties[period]
              IN /\ (assets # None /\ liabilities_equity # None)
                        => tie.bs_tie = assets - liabilities_equity
                 /\ (liabilities_equity = None /\ assets # None /\ liabilities # None
                     /\ equity # None)
                        => tie.bs_tie = assets - (liabilities + equity)
                 /\ (assets = None \/ (liabilities_equity = None
                                       /\ (liabilities = None \/ equity = None)))
                        => tie.bs_tie = None
                 /\ tie.status \in {"fail", "ok"}
                 /\ tie.status = "fail"
                        <=> (tie.bs_tie # None /\ Abs(tie.bs_tie) > 1)

\* assets 100.00, liabilities 60.00 and equity 30.00 without liabilities_equity
\* give bs_tie 10.00 and status fail while the cash-flow tie is exact
C10_Witness ==
    /\ stage = "ties"
    /\ EntryValue(LatestPeriod, "assets") = 10000
    /\ EntryValue(LatestPeriod, "liabilities") = 6000
    /\ EntryValue(LatestPeriod, "equity") = 3000
    /\ EntryValue(LatestPeriod, "liabilities_equity") = None
    /\ ties[LatestPeriod].bs_tie = 1000
    /\ ties[LatestPeriod].status = "fail"
    /\ ties[LatestPeriod].cf_tie = 0

\* ------------------------------------------------------------------------
\* Forecast engine (api/app/summary_utils.py).  Ratios and projected values
\* are exact fractions n/d in lowest terms with d > 0; NoNumber is None.
\* ------------------------------------------------------------------------
RECURSIVE GCD(_, _)
GCD(a, b) == IF b = 0 THEN a ELSE GCD(b, a % b)

Rat(n, d) ==
    LET g == GCD(Abs(n), Abs(d))
        s == IF d < 0 THEN -1 ELSE 1
    IN [n |-> (s * n) \div g, d |-> (s * d) \div g]

NoNumber == [n |-> 0, d |-> 0]

Whole(i) == [n |-> i, d |-> 1]

RatMul(a, b) == Rat(a.n * b.n, a.d * b.d)

RatAdd(a, b) == Rat(a.n * b.d + b.n * a.d, a.d * b.d)

RatLess(a, b) == a.n * b.d < b.n * a.d

RatMax(a, b) == IF RatLess(a, b) THEN b ELSE a

RatMin(a, b) == IF RatLess(b, a) THEN b ELSE a

RatNeg(a) == [n |-> -a.n, d |-> a.d]

RatSub(a, b) == RatAdd(a, RatNeg(b))

RatAbs(a) == [n |-> Abs(a.n), d |-> a.d]

\* a / b for b # 0
RatDiv(a, b) == Rat(a.n * b.d, a.d * b.n)

RatLeq(a, b) == ~RatLess(b, a)

\* Python's truth value of an optional number: None and 0 are false
Truthy(v) == v # NoNumber /\ v.n # 0

\* "a or b"
Or(a, b) == IF Truthy(a) THEN a ELSE b

DEFAULT_DRIVERS ==
    [revenue_growth |-> Rat(2, 100), gross_margin |-> Rat(40, 100),
     tax_rate |-> Rat(21, 100), capex_pct |-> Rat(5, 100), da_pct |-> Rat(3, 100),
     nwc_pct |-> Rat(10, 100), interest_rate |-> Rat(5, 100)]

SCENARIO_CONFIG ==
    [base |-> [growth_mult |-> Whole(1), margin_adj |-> Whole(0)],
     bull |-> [growth_mult |-> Rat(3, 2), margin_adj |-> Rat(2, 100)],
     bear |-> [growth_mult |-> Rat(1, 2), margin_adj |-> Rat(-2, 100)]]

\* the drivers of the model: revenue_growth and gross_margin
apply_scenario(drivers, scenario) ==
    LET config == SCENARIO_CONFIG[scenario]
    IN [revenue_growth |->
            IF drivers.revenue_growth = NoNumber THEN NoNumber
            ELSE RatMul(drivers.revenue_growth, config.growth_mult),
        gross_margin |->
            IF drivers.gross_margin = NoNumber THEN NoNumber
            ELSE RatMax(Whole(0),
                        RatMin(Whole(1), RatAdd(drivers.gross_margin, config.margin_adj)))]

get_driver(drivers, key, default) ==
    IF drivers[key] # NoNumber THEN drivers[key] ELSE default

\* mutant: the growth rate is added to the running revenue
project_revenue_additive(running_revenue, growth_rate) ==
    RatAdd(running_revenue, growth_rate)

project_revenue(running_revenue, growth_rate) ==
    RatMul(running_revenue, RatAdd(Whole(1), growth_rate))

\* the loop over period_idx of one scenario, from period_idx to num_periods
RECURSIVE ForecastPeriods(_, _, _, _, _, _)
ForecastPeriods(scenario_name, growth, gm, running_revenue, period_idx, num_periods) ==
    IF period_idx > num_periods THEN <<>>
    ELSE LET growth_rate == IF growth # NoNumber THEN growth ELSE Whole(0)
             projected_revenue == project_revenue(running_revenue, growth_rate)
             projected_gross_profit ==
                 IF Truthy(gm) THEN RatMul(projected_revenue, gm) ELSE NoNumber
             forecast_entry ==
                 [scenario |-> scenario_name,
                  period_index |-> period_idx,
                  revenue |-> projected_revenue,
                  gross_profit |-> projected_gross_profit,
                  revenue_growth |-> growth,
                  gross_margin |-> gm]
         IN <<forecast_entry>> \o
            ForecastPeriods(scenario_name, growth, gm, projected_revenue,
                            period_idx + 1, num_periods)

RECURSIVE ForecastScenarios(_, _, _, _)
ForecastScenarios(scenarios_to_run, revenue, drivers, num_periods) ==
    IF scenarios_to_run = <<>> THEN <<>>
    ELSE LET scenario_name == Head(scenarios_to_run)
             base_growth ==
                 get_driver(drivers, "revenue_growth", DEFAULT_DRIVERS.revenue_growth)
             gross_margin ==
                 get_driver(drivers, "gross_margin", DEFAULT_DRIVERS.gross_margin)
             adjusted == apply_scenario(drivers, scenario_name)
             growth == Or(adjusted.revenue_growth, base_growth)
             gm == Or(adjusted.gross_margin, gross_margin)
         IN ForecastPeriods(scenario_name, growth, gm, revenue, 1, num_periods) \o
            ForecastScenarios(Tail(scenarios_to_run), revenue, drivers, num_periods)

build_forecast(revenue, drivers, num_periods, include_scenarios) ==
    IF revenue = NoNumber THEN <<>>
    ELSE ForecastScenarios(IF include_scenarios THEN <<"base", "bull", "bear">>
                           ELSE <<"base">>,
                           revenue, drivers, num_periods)

\* ---- SpecForecast: one call of build_forecast on an anchor revenue and a
\* driver set
MaxPeriods == 2

AnchorRevenues == {NoNumber, Whole(100), Whole(80), Whole(0)}

RevenueGrowths ==
    {NoNumber, Whole(0), Rat(25, 100), Rat(10, 100), Rat(-10, 100), Rat(2, 100)}

GrossMargins == {NoNumber, Rat(40, 100), Rat(1, 100)}

InitForecast ==
    /\ StoreIdle
    /\ TieIdle
    /\ rows = <<>> /\ aggregated = <<>>
    /\ stage = "forecast_args"
    /\ ret = <<>> /\ files = {}
    /\ JobIdle
    /\ SessionIdle
    /\ SchedulerIdle
    /\ \E revenue \in AnchorRevenues, growth \in RevenueGrowths, gm \in GrossMargins,
          num_periods \in 1..MaxPeriods, include_scenarios \in BOOLEAN :
          argv = [revenue |-> revenue,
                  drivers |-> [revenue_growth |-> growth, gross_margin |-> gm],
                  num_periods |-> num_periods,
                  include_scenarios |-> include_scenarios]

BuildForecast ==
    /\ stage = "forecast_args"
    /\ ret' = build_forecast(argv.revenue, argv.drivers, argv.num_periods,
                             argv.include_scenarios)
    /\ stage' = "forecast"
    /\ UNCHANGED <<argv, files, rows, aggregated, storeVars, tieVars, jobVars, sessionVars, scheduler>>

NextForecast == BuildForecast

SpecForecast == InitForecast /\ [][NextForecast]_vars

RECURSIVE RatPow(_, _)
RatPow(a, k) == IF k = 0 THEN Whole(1) ELSE RatMul(a, RatPow(a, k - 1))

EntriesOf(scenario) == {i \in DOMAIN ret : ret[i].scenario = scenario}

\* C11: every forecast entry's revenue is the previous projected revenue of
\* its scenario (the anchor revenue at period_index 1) times 1 + the
\* scenario's growth, hence anchor * (1 + g)^k at period_index k, where g is
\* the growth driver times the scenario's multiplier; anchor 100 with growth
\* 0.25 gives base revenues 125 and 156.25.
C11_RevenueCompounds ==
    stage = "forecast" =>
        /\ \A i \in DOMAIN ret :
              LET e == ret[i]
                  g == e.revenue_growth
                  previous == IF e.period_index = 1 THEN argv.revenue
                              ELSE ret[i - 1].revenue
              IN /\ argv.drivers.revenue_growth # NoNumber
                        => g = RatMul(argv.drivers.revenue_growth,
                                      SCENARIO_CONFIG[e.scenario].growth_mult)
                 /\ e.period_index > 1
                        => /\ ret[i - 1].scenario = e.scenario
                           /\ ret[i - 1].period_index = e.period_index - 1
                 /\ e.revenue = RatMul(previous, RatAdd(Whole(1), g))
                 /\ e.revenue = RatMul(argv.revenue,
                                       RatPow(RatAdd(Whole(1), g), e.period_index))
        /\ (argv.revenue = Whole(100) /\ argv.drivers.revenue_growth = Rat(25, 100)
            /\ argv.num_periods >= 2)
              => /\ ret[1].revenue = Whole(125)
                 /\ ret[2].revenue = Rat(15625, 100)

\* anchor 100 and growth 0.25 over two periods: 125, then 156.25 (not 150)
C11_Witness ==
    /\ stage = "forecast"
    /\ argv.revenue = Whole(100)
    /\ argv.drivers.revenue_growth = Rat(25, 100)
    /\ argv.num_periods >= 2
    /\ Len(ret) >= 2
    /\ ret[1].scenario = "base" /\ ret[1].period_index = 1
    /\ ret[1].revenue = Whole(125)
    /\ ret[2].scenario = "base" /\ ret[2].period_index = 2
    /\ ret[2].revenue = Rat(15625, 100)

RevenueAt(scenario, k) ==
    ret[CHOOSE i \in EntriesOf(scenario) : ret[i].period_index = k].revenue

\* C12: whenever build_forecast ran with scenarios enabled on an anchor
\* revenue, at every period_index the bull revenue is strictly greater than
\* the base revenue and the base revenue strictly greater than the bear
\* revenue.
C12_BullAboveBaseAboveBear ==
    (stage = "forecast" /\ argv.include_scenarios /\ argv.revenue # NoNumber) =>
        \A k \in 1..argv.num_periods :
            /\ RatLess(RevenueAt("base", k), RevenueAt("bull", k))
            /\ RatLess(RevenueAt("bear", k), RevenueAt("base", k))

\* ------------------------------------------------------------------------
\* Backtest scoring (api/app/summary_utils.py, api/app/backtest.py).  An
\* optional interval array is a record [given, items], given = FALSE being
\* the default None.
\* ------------------------------------------------------------------------
NaN == [n |-> 1, d |-> 0]

NotGiven == [given |-> FALSE, items |-> <<>>]

Given(items) == [given |-> TRUE, items |-> items]

\* truth value of an Optional[List]: None and the empty list are false
ListTruthy(interval) == interval.given /\ Len(interval.items) > 0

ValueError(message) == [raised |-> "ValueError", message |-> message]

RECURSIVE SumRats(_)
SumRats(seq) == IF seq = <<>> THEN Whole(0) ELSE RatAdd(Head(seq), SumRats(Tail(seq)))

\* sum(xs) / len(xs) of rationals
Mean(seq) == RatMul(SumRats(seq), Rat(1, Len(seq)))

compute_backtest_metrics(actuals, forecasts, interval_low, interval_high) ==
    IF Len(actuals) # Len(forecasts)
    THEN ValueError("actuals and forecasts must be the same length")
    ELSE IF ListTruthy(interval_low) /\ Len(interval_low.items) # Len(actuals)
    THEN ValueError("interval_low must match length of actuals")
    ELSE IF ListTruthy(interval_high) /\ Len(interval_high.items) # Len(actuals)
    THEN ValueError("interval_high must match length of actuals")
    ELSE
    LET paired == SelectSeq([i \in 1..Len(actuals) |-> <<actuals[i], forecasts[i]>>],
                            LAMBDA p : p[1] # NoNumber /\ p[2] # NoNumber)
    IN IF paired = <<>>
       THEN [raised |-> "", mae |-> NaN, mape |-> NaN, directional_accuracy |-> NaN,
             interval_coverage |-> NaN]
       ELSE
       LET abs_errors == [i \in DOMAIN paired |-> RatAbs(RatSub(paired[i][1], paired[i][2]))]
           mae == Mean(abs_errors)
           nonzero == SelectSeq(paired, LAMBDA p : p[1].n # 0)
           mape_vals == [i \in DOMAIN nonzero |->
                            RatDiv(RatAbs(RatSub(nonzero[i][1], nonzero[i][2])),
                                   RatAbs(nonzero[i][1]))]
           mape == IF mape_vals # <<>> THEN Mean(mape_vals) ELSE NaN
           directional_hits ==
               SelectSeq(paired, LAMBDA p : (p[1].n >= 0 /\ p[2].n >= 0) \/ (p[1].n < 0 /\ p[2].n < 0))
           directional_accuracy == Rat(Len(directional_hits), Len(paired))
           zipped == IF ListTruthy(interval_low) /\ ListTruthy(interval_high)
                     THEN [i \in 1..Len(actuals) |->
                              <<actuals[i], interval_low.items[i], interval_high.items[i]>>]
                     ELSE <<>>
           coverage_points ==
               SelectSeq(zipped, LAMBDA t : t[1] # NoNumber /\ t[2] # NoNumber /\ t[3] # NoNumber)
           covered == SelectSeq(coverage_points, LAMBDA t : RatLeq(t[2], t[1]) /\ RatLeq(t[1], t[3]))
           interval_coverage ==
               IF coverage_points # <<>> THEN Rat(Len(covered), Len(coverage_points))
               ELSE NaN
       IN [raised |-> "", mae |-> mae, mape |-> mape,
           directional_accuracy |-> directional_accuracy,
           interval_coverage |-> interval_coverage]

\* BacktestResult(...) of the metrics, or the error passed on
evaluate_forecasts(actuals, forecasts, interval_low, interval_high) ==
    compute_backtest_metrics(actuals, forecasts, interval_low, interval_high)

\* ---- SpecBacktest: one call of compute_backtest_metrics or
\* evaluate_forecasts
MaxSamples == 2

Seqs(S, n) == UNION {[1..k -> S] : k \in 0..n}

OptionalList(S, n) == {NotGiven} \cup {Given(items) : items \in Seqs(S, n)}

InitBacktest ==
    /\ StoreIdle
    /\ TieIdle
    /\ rows = <<>> /\ aggregated = <<>>
    /\ stage = "backtest_args"
    /\ ret = <<>> /\ files = {}
    /\ JobIdle
    /\ SessionIdle
    /\ SchedulerIdle
    /\ \E actuals \in Seqs({NoNumber, Whole(100), Whole(0)}, MaxSamples),
          forecasts \in Seqs({NoNumber, Whole(90)}, MaxSamples),
          interval_low \in OptionalList({Whole(80)}, MaxSamples),
          interval_high \in OptionalList({Whole(110)}, MaxSamples) :
          argv = [actuals |-> actuals, forecasts |-> forecasts,
                  interval_low |-> interval_low, interval_high |-> interval_high]

ComputeBacktestMetrics ==
    /\ stage = "backtest_args"
    /\ ret' = compute_backtest_metrics(argv.actuals, argv.forecasts,
                                       argv.interval_low, argv.interval_high)
    /\ stage' = "compute_backtest_metrics"
    /\ UNCHANGED <<argv, files, rows, aggregated, storeVars, tieVars, jobVars, sessionVars, scheduler>>

EvaluateForecasts ==
    /\ stage = "backtest_args"
    /\ ret' = evaluate_forecasts(argv.actuals, argv.forecasts,
                                 argv.interval_low, argv.interval_high)
    /\ stage' = "evaluate_forecasts"
    /\ UNCHANGED <<argv, files, rows, aggregated, storeVars, tieVars, jobVars, sessionVars, scheduler>>

NextBacktest ==
    \/ ComputeBacktestMetrics
    \/ EvaluateForecasts

SpecBacktest == InitBacktest /\ [][NextBacktest]_vars

Scored == stage \in {"compute_backtest_metrics", "evaluate_forecasts"}

\* C13: a call whose forecasts, or whose supplied interval_low or
\* interval_high (of any length, zero included), differ in length from
\* actuals raises the length-mismatch error and returns no metrics.
C13_AnyLengthMismatchRaises ==
    (/\ Scored
     /\ \/ Len(argv.forecasts) # Len(argv.actuals)
        \/ argv.interval_low.given /\ Len(argv.interval_low.items) # Len(argv.actuals)
        \/ argv.interval_high.given /\ Len(argv.interval_high.items) # Len(argv.actuals))
        => ret.raised = "ValueError"

\* ------------------------------------------------------------------------
\* Time-travel revenue backtest (workers/backtest.py and
\* api/app/summary_utils.py).  A metric history is the sequence of its
\* periods in ascending period_end order, each holding the period's revenue
\* value (NoNumber when the period has no revenue value).
\* ------------------------------------------------------------------------

\* workers/backtest.py: growth between the two most recent periods
worker_compute_drivers(m) ==
    IF m = <<>> THEN NoNumber
    ELSE LET latest_revenue == m[Len(m)]
             prev_revenue == IF Len(m) > 1 THEN m[Len(m) - 1] ELSE NoNumber
             revenue_growth ==
                 IF latest_revenue # NoNumber /\ prev_revenue # NoNumber /\ prev_revenue.n # 0
                 THEN RatDiv(RatSub(latest_revenue, prev_revenue), prev_revenue)
                 ELSE NoNumber
         IN IF revenue_growth = NoNumber /\ latest_revenue # NoNumber
            THEN Rat(2, 100)
            ELSE revenue_growth

compute_growth(current, previous) ==
    IF current = NoNumber \/ previous = NoNumber \/ previous.n = 0 THEN NoNumber
    ELSE RatDiv(RatSub(current, previous), previous)

\* the growths of the i-th most recent period over the one before it, for
\* i from 1 to count, outliers and undefined growths left out
RECURSIVE RecentGrowths(_, _, _)
RecentGrowths(m, i, count) ==
    IF i > count THEN <<>>
    ELSE LET g == compute_growth(m[Len(m) - i + 1], m[Len(m) - i])
         IN (IF g # NoNumber /\ RatLess(RatAbs(g), Whole(10)) THEN <<g>> ELSE <<>>)
            \o RecentGrowths(m, i + 1, count)

avg_growth(m, periods) ==
    IF Len(m) < 2 THEN NoNumber
    ELSE LET growths ==
                 RecentGrowths(m, 1, IF periods < Len(m) - 1 THEN periods ELSE Len(m) - 1)
         IN IF growths # <<>> THEN Mean(growths) ELSE NoNumber

\* api/app/summary_utils.py: the revenue_growth driver of compute_drivers
compute_drivers_revenue_growth(m) ==
    IF m = <<>> THEN NoNumber
    ELSE LET latest_revenue == m[Len(m)]
             prev_revenue == IF Len(m) > 1 THEN m[Len(m) - 1] ELSE NoNumber
             averaged == avg_growth(m, 4)
             single == IF averaged # NoNumber THEN averaged
                       ELSE compute_growth(latest_revenue, prev_revenue)
         IN IF single = NoNumber /\ latest_revenue # NoNumber
            THEN DEFAULT_DRIVERS.revenue_growth
            ELSE single

\* drivers["revenue_growth"]["value"] as the module of the backtest computes it
RevenueGrowthDriver(module, m) ==
    IF module = "workers.backtest" THEN worker_compute_drivers(m)
    ELSE compute_drivers_revenue_growth(m)

\* mutant: the window includes the period being forecast
metrics_asof_peeks(metrics_full, idx) == SubSeq(metrics_full, 1, idx + 1)

\* {p: metrics[p] for p in periods[:idx]}
metrics_asof(metrics_full, idx) == SubSeq(metrics_full, 1, idx)

\* the loop over idx: the samples (period forecast, forecast, actual) appended
\* from idx on; as_of_period is the idx-th period, the period forecast the
\* one after it
RECURSIVE TimeTravelSamples(_, _, _)
TimeTravelSamples(metrics_full, idx, module) ==
    IF idx > Len(metrics_full) - 1 THEN <<>>
    ELSE LET asof == metrics_asof(metrics_full, idx)
             revenue_growth == RevenueGrowthDriver(module, asof)
             prev_revenue == asof[idx]
             growth == Or(revenue_growth, Whole(0))
             forecast == RatMul(prev_revenue, RatAdd(Whole(1), growth))
             actual == metrics_full[idx + 1]
             sample == IF prev_revenue = NoNumber \/ actual = NoNumber THEN <<>>
                       ELSE <<[period |-> idx + 1, forecast |-> forecast,
                               actual |-> actual]>>
         IN sample \o TimeTravelSamples(metrics_full, idx + 1, module)

NoScore == [scored |-> FALSE, samples |-> <<>>]

TimeTravel(metrics_full, module) ==
    IF Len(metrics_full) < 2 THEN NoScore
    ELSE LET samples == TimeTravelSamples(metrics_full, 1, module)
             actuals == [i \in DOMAIN samples |-> samples[i].actual]
             forecasts == [i \in DOMAIN samples |-> samples[i].forecast]
         IN IF samples = <<>> THEN NoScore
            ELSE [scored |-> TRUE, samples |-> samples,
                  metrics |-> compute_backtest_metrics(actuals, forecasts,
                                                       NotGiven, NotGiven)]

backtest_revenue_time_travel_from_metrics(metrics_full) ==
    TimeTravel(metrics_full, "workers.backtest")

compute_revenue_time_travel(metrics_full) ==
    TimeTravel(metrics_full, "app.summary_utils")

\* ---- SpecTimeTravel: the backtest run on two metric histories a and b
MaxHistory == 3

Revenues == {NoNumber, Whole(100), Whole(120)}

\* the oldest period may also report a revenue of 0
Histories ==
    {h \in Seqs(Revenues \cup {Whole(0)}, MaxHistory) :
        \A p \in DOMAIN h : p > 1 => h[p] \in Revenues}

InitTimeTravel ==
    /\ StoreIdle
    /\ TieIdle
    /\ rows = <<>> /\ aggregated = <<>>
    /\ stage = "histories"
    /\ ret = <<>> /\ files = {}
    /\ JobIdle
    /\ SessionIdle
    /\ SchedulerIdle
    /\ \E a \in Histories, b \in Histories : argv = [a |-> a, b |-> b]

BacktestRevenueTimeTravel ==
    /\ stage = "histories"
    /\ ret' = [history \in {"a", "b"} |-> backtest_revenue_time_travel_from_metrics(argv[history])]
    /\ stage' = "backtest_revenue_time_travel"
    /\ UNCHANGED <<argv, files, rows, aggregated, storeVars, tieVars, jobVars, sessionVars, scheduler>>

ComputeRevenueTimeTravel ==
    /\ stage = "histories"
    /\ ret' = [history \in {"a", "b"} |-> compute_revenue_time_travel(argv[history])]
    /\ stage' = "compute_revenue_time_travel"
    /\ UNCHANGED <<argv, files, rows, aggregated, storeVars, tieVars, jobVars, sessionVars, scheduler>>

NextTimeTravel ==
    \/ BacktestRevenueTimeTravel
    \/ ComputeRevenueTimeTravel

SpecTimeTravel == InitTimeTravel /\ [][NextTimeTravel]_vars

TimeTravelled == stage \in {"backtest_revenue_time_travel", "compute_revenue_time_travel"}

\* the forecasts a run scored against period N (at most one)
ForecastsFor(run_result, N) ==
    {run_result.samples[i].forecast :
        i \in {j \in DOMAIN run_result.samples : run_result.samples[j].period = N}}

\* C14: when two metric histories agree on every period before N and both
\* hold an actual revenue for N, the time-travel backtest scores the same
\* forecast against N in both, whatever they hold for N and later periods.
C14_ForecastIgnoresFuture ==
    TimeTravelled =>
        \A N \in 2..MaxHistory :
            (/\ N <= Len(argv.a) /\ N <= Len(argv.b)
             /\ \A p \in 1..(N - 1) : argv.a[p] = argv.b[p]
             /\ argv.a[N] # NoNumber /\ argv.b[N] # NoNumber)
                => /\ ForecastsFor(ret.a, N) = ForecastsFor(ret.b, N)
                   /\ Cardinality(ForecastsFor(ret.a, N)) <= 1

\* histories 100, 120, 120 and 100, 120, 100: both score the forecast 144
\* against the third period although its actuals differ
C14_Witness ==
    /\ TimeTravelled
    /\ argv.a = <<Whole(100), Whole(120), Whole(120)>>
    /\ argv.b = <<Whole(100), Whole(120), Whole(100)>>
    /\ ForecastsFor(ret.a, 3) = {Whole(144)}
    /\ ForecastsFor(ret.b, 3) = {Whole(144)}

\* ------------------------------------------------------------------------
\* Drivers with a hardcoded fallback (api/app/summary_utils.py,
\* compute_drivers): tax_rate, capex_pct, da_pct, nwc_pct, interest_rate,
\* computed from the values of the latest period.
\* ------------------------------------------------------------------------
safe_div(num, den) ==
    IF num = NoNumber \/ den = NoNumber \/ den.n = 0 THEN NoNumber
    ELSE RatDiv(num, den)

\* "(x or 0)"
OrZeroRat(x) == Or(x, Whole(0))

\* {"value": local or default, "is_default": local is None}
Driver(local, default) ==
    [value |-> Or(local, default), is_default |-> local = NoNumber]

compute_drivers(latest_values) ==
    LET latest_revenue == latest_values.revenue
        pre_tax_income == latest_values.pre_tax_income
        income_tax == latest_values.income_tax_expense
        cfi == latest_values.cfi
        capex == latest_values.capex
        da == latest_values.depreciation_amortization
        ppe == latest_values.ppe
        accounts_receivable == latest_values.accounts_receivable
        inventory == latest_values.inventory
        accounts_payable == latest_values.accounts_payable
        nwc0 == NoNumber
        nwc1 == IF accounts_receivable # NoNumber
                THEN RatAdd(OrZeroRat(nwc0), accounts_receivable) ELSE nwc0
        nwc2 == IF inventory # NoNumber THEN RatAdd(OrZeroRat(nwc1), inventory) ELSE nwc1
        nwc == IF accounts_payable # NoNumber
               THEN RatSub(OrZeroRat(nwc2), accounts_payable) ELSE nwc2
        observed_tax_rate == safe_div(income_tax, pre_tax_income)
        tax_rate ==
            IF observed_tax_rate # NoNumber
               /\ (RatLess(observed_tax_rate, Whole(0))
                   \/ RatLess(Rat(5, 10), observed_tax_rate))
            THEN DEFAULT_DRIVERS.tax_rate
            ELSE observed_tax_rate
        capex_pct ==
            IF capex # NoNumber /\ Truthy(latest_revenue)
            THEN RatDiv(RatAbs(capex), latest_revenue)
            ELSE IF cfi # NoNumber /\ Truthy(latest_revenue)
            THEN RatMul(RatDiv(RatAbs(cfi), latest_revenue), Rat(7, 10))
            ELSE NoNumber
        da_direct == IF Truthy(da) THEN safe_div(da, latest_revenue) ELSE NoNumber
        da_pct ==
            IF da_direct = NoNumber /\ ppe # NoNumber /\ Truthy(latest_revenue)
            THEN RatDiv(RatMul(ppe, Rat(10, 100)), latest_revenue)
            ELSE da_direct
        nwc_pct == safe_div(nwc, latest_revenue)
        interest_expense == latest_values.interest_expense
        total_debt == RatAdd(OrZeroRat(latest_values.debt_long_term),
                             OrZeroRat(latest_values.debt_current))
        interest_rate ==
            IF Truthy(total_debt) THEN safe_div(interest_expense, total_debt) ELSE NoNumber
    IN [tax_rate |-> Driver(tax_rate, DEFAULT_DRIVERS.tax_rate),
        capex_pct |-> Driver(capex_pct, DEFAULT_DRIVERS.capex_pct),
        da_pct |-> Driver(da_pct, DEFAULT_DRIVERS.da_pct),
        nwc_pct |-> Driver(nwc_pct, DEFAULT_DRIVERS.nwc_pct),
        interest_rate |-> Driver(interest_rate, DEFAULT_DRIVERS.interest_rate)]

\* ---- SpecDrivers: one call of compute_drivers on a single period
OptionalWhole(S) == {NoNumber} \cup {Whole(i) : i \in S}

LatestPeriodValues ==
    {[revenue |-> revenue,
      income_tax_expense |-> tax[1], pre_tax_income |-> tax[2],
      capex |-> investing[1], cfi |-> investing[2],
      depreciation_amortization |-> fixed[1], ppe |-> fixed[2],
      accounts_receivable |-> working[1], inventory |-> working[2],
      accounts_payable |-> working[3],
      interest_expense |-> debt[1], debt_long_term |-> debt[2],
      debt_current |-> NoNumber] :
        revenue \in OptionalWhole({0, 100}),
        tax \in OptionalWhole({21, 60, 0, -5}) \X OptionalWhole({100}),
        investing \in {<<NoNumber, NoNumber>>, <<Whole(-5), Whole(-10)>>,
                       <<Whole(0), NoNumber>>, <<NoNumber, Whole(-10)>>},
        fixed \in {<<NoNumber, NoNumber>>, <<Whole(3), NoNumber>>,
                   <<Whole(0), Whole(50)>>, <<NoNumber, Whole(50)>>},
        working \in {<<NoNumber, NoNumber, NoNumber>>, <<Whole(20), NoNumber, NoNumber>>,
                     <<Whole(20), Whole(10), Whole(30)>>},
        debt \in {<<NoNumber, NoNumber>>, <<Whole(5), Whole(100)>>,
                  <<Whole(0), Whole(100)>>, <<Whole(5), NoNumber>>}}

InitDrivers ==
    /\ StoreIdle
    /\ TieIdle
    /\ rows = <<>> /\ aggregated = <<>>
    /\ stage = "latest_values"
    /\ ret = <<>> /\ files = {}
    /\ JobIdle
    /\ SessionIdle
    /\ SchedulerIdle
    /\ argv \in LatestPeriodValues

ComputeDrivers ==
    /\ stage = "latest_values"
    /\ ret' = compute_drivers(argv)
    /\ stage' = "drivers"
    /\ UNCHANGED <<argv, files, rows, aggregated, storeVars, tieVars, jobVars, sessionVars, scheduler>>

NextDrivers == ComputeDrivers

SpecDrivers == InitDrivers /\ [][NextDrivers]_vars

FallbackDrivers == {"tax_rate", "capex_pct", "da_pct", "nwc_pct", "interest_rate"}

\* the ratio the data of the call supports for a driver, NoNumber when it
\* supports none; a tax rate outside [0, 0.5] is not supported
ObservedRatio(driver) ==
    LET revenue == argv.revenue
        tax == safe_div(argv.income_tax_expense, argv.pre_tax_income)
        nwc == RatSub(RatAdd(OrZeroRat(argv.accounts_receivable),
                             OrZeroRat(argv.inventory)),
                      OrZeroRat(argv.accounts_payable))
    IN CASE driver = "tax_rate" ->
                IF tax # NoNumber /\ RatLeq(Whole(0), tax) /\ RatLeq(tax, Rat(5, 10))
                THEN tax ELSE NoNumber
         [] driver = "capex_pct" ->
                IF argv.capex # NoNumber THEN safe_div(RatAbs(argv.capex), revenue)
                ELSE IF argv.cfi # NoNumber
                THEN safe_div(RatMul(RatAbs(argv.cfi), Rat(7, 10)), revenue)
                ELSE NoNumber
         [] driver = "da_pct" ->
                IF Truthy(argv.depreciation_amortization)
                THEN safe_div(argv.depreciation_amortization, revenue)
                ELSE IF argv.ppe # NoNumber
                THEN safe_div(RatMul(argv.ppe, Rat(10, 100)), revenue)
                ELSE NoNumber
         [] driver = "nwc_pct" ->
                IF argv.accounts_receivable = NoNumber /\ argv.inventory = NoNumber
                   /\ argv.accounts_payable = NoNumber
                THEN NoNumber ELSE safe_div(nwc, revenue)
         [] driver = "interest_rate" ->
                safe_div(argv.interest_expense,
                         RatAdd(OrZeroRat(argv.debt_long_term),
                                OrZeroRat(argv.debt_current)))

\* C15: for tax_rate, capex_pct, da_pct, nwc_pct and interest_rate,
\* is_default is true exactly when the returned value is the hardcoded
\* default and not a ratio observed in the data; an observed tax rate
\* outside [0, 0.5] yields the default 0.21 flagged as default.
C15_IsDefaultExactlyWhenFallback ==
    stage = "drivers" =>
        /\ \A driver \in FallbackDrivers :
              LET observed == ObservedRatio(driver)
              IN /\ ret[driver].is_default
                        <=> (observed = NoNumber \/ ret[driver].value # observed)
                 /\ ret[driver].is_default
                        => ret[driver].value = DEFAULT_DRIVERS[driver]
        /\ LET tax == safe_div(argv.income_tax_expense, argv.pre_tax_income)
           IN (tax # NoNumber /\ (RatLess(tax, Whole(0)) \/ RatLess(Rat(5, 10), tax)))
                 => /\ ret.tax_rate.value = Rat(21, 100)
                    /\ ret.tax_rate.is_default

\* ------------------------------------------------------------------------
\* Inline XBRL extraction (workers/parser.py, parse_inline_xbrl).  A
\* document is its context declarations and its fact tags, both in document
\* order.  A context has an id, a segment ("none", "typed" for a segment
\* with a typed member, "explicit" otherwise), the (axis, member) pairs of
\* its explicit members and a period.  A tag has a name, a contextRef ("" when
\* it has none) and the amount read from its text.
\* ------------------------------------------------------------------------
ALLOWED_CONTEXT_AXES ==
    {"us-gaap:StatementClassOfStockAxis", "us-gaap:StatementEquityComponentsAxis",
     "dei:LegalEntityAxis", "srt:ConsolidationItemsAxis"}

\* the empty set stands for an axis without an entry
ALLOWED_AXIS_MEMBERS(axis) ==
    CASE axis = "srt:ConsolidationItemsAxis" ->
            {"us-gaap:CorporateNonSegmentMember", "us-gaap:ConsolidatedEntitiesMember",
             "us-gaap:ConsolidatedEntityMember", "srt:ConsolidatedGroupMember"}
      [] axis = "us-gaap:StatementClassOfStockAxis" -> {"us-gaap:CommonStockMember"}
      [] axis = "us-gaap:StatementEquityComponentsAxis" ->
            {"us-gaap:AccumulatedOtherComprehensiveIncomeMember",
             "us-gaap:CommonStockMember",
             "us-gaap:CommonStockIncludingAdditionalPaidInCapitalMember",
             "us-gaap:RetainedEarningsMember", "us-gaap:TreasuryStockMember"}
      [] OTHER -> {}

ANCHOR_LINE_ITEMS(statement) ==
    CASE statement = "income_statement" ->
            {"revenue", "net_income", "gross_profit", "operating_income"}
      [] statement = "balance_sheet" -> {"assets", "equity", "liabilities_equity", "cash"}
      [] statement = "cash_flow" -> {"cfo", "cfi", "cff", "net_income"}
      [] OTHER -> {}

\* the tag table: tag name -> list of (line_item, statement); <<>> for a
\* name that is not mapped
TAG_MAP(name) ==
    CASE name = "us-gaap:Revenues" -> <<<<"revenue", "income_statement">>>>
      [] name = "us-gaap:CostOfRevenue" -> <<<<"cogs", "income_statement">>>>
      [] name = "us-gaap:NetIncomeLoss" ->
            <<<<"net_income", "income_statement">>, <<"net_income", "cash_flow">>>>
      [] name = "us-gaap:PaymentsToAcquirePropertyPlantAndEquipment" ->
            <<<<"capex", "cash_flow">>>>
      [] OTHER -> <<>>

\* mutant: the member lists are not consulted
context_is_allowed_any_member(dimensions) ==
    \A i \in DOMAIN dimensions : dimensions[i][1] \in ALLOWED_CONTEXT_AXES

context_is_allowed(dimensions) ==
    \A i \in DOMAIN dimensions :
        LET axis == dimensions[i][1]
            member == dimensions[i][2]
            allowed_members == ALLOWED_AXIS_MEMBERS(axis)
        IN /\ axis \in ALLOWED_CONTEXT_AXES
           /\ ~(allowed_members # {} /\ member \notin allowed_members)

\* the first loop: a declaration enters the context map unless its segment
\* has a typed member or its dimensions are not allowed
Admitted(ctx) ==
    ctx.segment = "none" \/ (ctx.segment = "explicit" /\ context_is_allowed(ctx.dims))

\* the context map: the admitted declarations in document order; of two
\* declarations with one id the later one counts
ContextMap(declarations) == SelectSeq(declarations, Admitted)

InContexts(contexts, ctx_ref) == \E i \in DOMAIN contexts : contexts[i].id = ctx_ref

ContextData(contexts, ctx_ref) ==
    contexts[CHOOSE i \in DOMAIN contexts :
                /\ contexts[i].id = ctx_ref
                /\ \A j \in DOMAIN contexts : contexts[j].id = ctx_ref => j <= i]

\* fallback_period_end and fallback_period_type after the first loop
RECURSIVE Fallback(_, _)
Fallback(contexts, sofar) ==
    IF contexts = <<>> THEN sofar
    ELSE LET ctx == Head(contexts)
             next == IF ctx.period_type = "instant"
                     THEN (IF sofar.period_end = None
                           THEN [period_end |-> ctx.period_end, period_type |-> "instant"]
                           ELSE sofar)
                     ELSE [period_end |-> ctx.period_end, period_type |-> "duration"]
         IN Fallback(Tail(contexts), next)

NoFallback == [period_end |-> None, period_type |-> "unknown"]

\* the second loop: the context refs of the anchor line items of a statement
anchor_contexts(tags, contexts, statement) ==
    {tags[i].contextref : i \in {j \in DOMAIN tags :
        /\ TAG_MAP(tags[j].name) # <<>>
        /\ tags[j].contextref # ""
        /\ InContexts(contexts, tags[j].contextref)
        /\ \E k \in DOMAIN TAG_MAP(tags[j].name) :
              /\ TAG_MAP(tags[j].name)[k][2] = statement
              /\ TAG_MAP(tags[j].name)[k][1] \in ANCHOR_LINE_ITEMS(statement)}}

\* mutant: a fact without a context ref passes the anchor rule
anchor_rule_drops_only_other_contexts(anchors, statement, line_item, ctx_ref) ==
    /\ anchors # {}
    /\ line_item \notin ANCHOR_LINE_ITEMS(statement)
    /\ ctx_ref # "" /\ ctx_ref \notin anchors

anchor_rule_drops(anchors, statement, line_item, ctx_ref) ==
    /\ anchors # {}
    /\ line_item \notin ANCHOR_LINE_ITEMS(statement)
    /\ (ctx_ref = "" \/ ctx_ref \notin anchors)

\* the facts one tag appends, one per mapping that passes the anchor rule
RECURSIVE FactsOfMappings(_, _, _, _, _)
FactsOfMappings(mappings, tag, tags, contexts, fallback) ==
    IF mappings = <<>> THEN <<>>
    ELSE LET line_item == Head(mappings)[1]
             statement == Head(mappings)[2]
             ctx_ref == tag.contextref
             anchors == anchor_contexts(tags, contexts, statement)
             known == ctx_ref # "" /\ InContexts(contexts, ctx_ref)
             fact == [line_item |-> line_item,
                      statement |-> statement,
                      value |-> tag.amount,
                      xbrl_tag |-> tag.name,
                      context_ref |-> ctx_ref,
                      period_start |->
                          IF known THEN ContextData(contexts, ctx_ref).start ELSE None,
                      period_end |->
                          IF known /\ ContextData(contexts, ctx_ref).period_end # None
                          THEN ContextData(contexts, ctx_ref).period_end
                          ELSE fallback.period_end,
                      period_type |->
                          IF known THEN ContextData(contexts, ctx_ref).period_type
                          ELSE fallback.period_type]
         IN (IF anchor_rule_drops(anchors, statement, line_item, ctx_ref)
             THEN <<>> ELSE <<fact>>)
            \o FactsOfMappings(Tail(mappings), tag, tags, contexts, fallback)

\* the third loop, from the i-th tag on
RECURSIVE FactsOfTags(_, _, _, _)
FactsOfTags(i, tags, contexts, fallback) ==
    IF i > Len(tags) THEN <<>>
    ELSE LET tag == tags[i]
             skipped == \/ TAG_MAP(tag.name) = <<>>
                        \/ tag.contextref # "" /\ ~InContexts(contexts, tag.contextref)
         IN (IF skipped THEN <<>>
             ELSE FactsOfMappings(TAG_MAP(tag.name), tag, tags, contexts, fallback))
            \o FactsOfTags(i + 1, tags, contexts, fallback)

parse_inline_xbrl(document) ==
    LET contexts == ContextMap(document.contexts)
        fallback == Fallback(contexts, NoFallback)
    IN FactsOfTags(1, document.tags, contexts, fallback)

\* ---- SpecParse: one call of parse_inline_xbrl on a document
MaxTags == 2

Context(id, segment, dims, period_type, start, period_end) ==
    [id |-> id, segment |-> segment, dims |-> dims, period_type |-> period_type, start |-> start, period_end |-> period_end]

ContextDeclarations ==
    <<Context("ctxInstant", "none", <<>>, "instant", None, PeriodEnd),
      Context("ctxConsolidated", "explicit",
              <<<<"srt:ConsolidationItemsAxis", "us-gaap:CorporateNonSegmentMember">>>>,
              "duration", 1, PeriodEnd),
      Context("ctxEntity", "explicit",
              <<<<"dei:LegalEntityAxis", "custom:ParentCompanyMember">>,
                <<"us-gaap:StatementClassOfStockAxis", "us-gaap:CommonStockMember">>>>,
              "duration", 2, PeriodEnd),
      Context("ctxBlocked", "explicit",
              <<<<"us-gaap:StatementClassOfStockAxis", "us-gaap:CommonStockMember">>,
                <<"custom:BusinessSegmentAxis", "custom:SegmentAMember">>>>,
              "duration", 1, PeriodEnd),
      Context("ctxSegmented", "explicit",
              <<<<"srt:ConsolidationItemsAxis", "us-gaap:OperatingSegmentsMember">>>>,
              "duration", 1, PeriodEnd),
      Context("ctxTyped", "typed", <<>>, "duration", 1, PeriodEnd)>>

ContextRefs == {""} \cup {ContextDeclarations[i].id : i \in DOMAIN ContextDeclarations}

TagNames ==
    {"us-gaap:Revenues", "us-gaap:CostOfRevenue", "us-gaap:NetIncomeLoss",
     "us-gaap:PaymentsToAcquirePropertyPlantAndEquipment", "custom:BacklogAmount"}

InitParse ==
    /\ StoreIdle
    /\ TieIdle
    /\ rows = <<>> /\ aggregated = <<>>
    /\ stage = "document"
    /\ ret = <<>> /\ files = {}
    /\ JobIdle
    /\ SessionIdle
    /\ SchedulerIdle
    /\ \E n \in 0..MaxTags :
          \E names \in [1..n -> TagNames], refs \in [1..n -> ContextRefs] :
             argv = [contexts |-> ContextDeclarations,
                     tags |-> [i \in 1..n |-> [name |-> names[i], contextref |-> refs[i],
                                               amount |-> 100 * i]]]

ParseInlineXbrl ==
    /\ stage = "document"
    /\ ret' = parse_inline_xbrl(argv)
    /\ stage' = "facts"
    /\ UNCHANGED <<argv, files, rows, aggregated, storeVars, tieVars, jobVars, sessionVars, scheduler>>

NextParse == ParseInlineXbrl

SpecParse == InitParse /\ [][NextParse]_vars

\* ---- the declaration a context ref names, and what it carries
Declared(ctx_ref) ==
    ContextDeclarations[CHOOSE i \in DOMAIN ContextDeclarations :
                           ContextDeclarations[i].id = ctx_ref]

HasTypedMember(ctx) == ctx.segment = "typed"

HasDisallowedDimension(ctx) ==
    \E i \in DOMAIN ctx.dims :
        \/ ctx.dims[i][1] \notin ALLOWED_CONTEXT_AXES
        \/ /\ ALLOWED_AXIS_MEMBERS(ctx.dims[i][1]) # {}
           /\ ctx.dims[i][2] \notin ALLOWED_AXIS_MEMBERS(ctx.dims[i][1])

\* the facts emitted for the i-th tag under one of its mappings
EmittedFor(i, mapping) ==
    {j \in DOMAIN ret :
        /\ ret[j].xbrl_tag = argv.tags[i].name
        /\ ret[j].context_ref = argv.tags[i].contextref
        /\ ret[j].value = argv.tags[i].amount
        /\ ret[j].line_item = mapping[1]
        /\ ret[j].statement = mapping[2]}

Mappings(i) == {TAG_MAP(argv.tags[i].name)[k] : k \in DOMAIN TAG_MAP(argv.tags[i].name)}

\* the context refs of a statement's anchor line items among the admissible
\* contexts of the document
AnchorContextsOf(statement) ==
    {argv.tags[i].contextref : i \in {j \in DOMAIN argv.tags :
        /\ argv.tags[j].contextref # ""
        /\ ~HasTypedMember(Declared(argv.tags[j].contextref))
        /\ ~HasDisallowedDimension(Declared(argv.tags[j].contextref))
        /\ \E m \in Mappings(j) : m[2] = statement /\ m[1] \in ANCHOR_LINE_ITEMS(statement)}}

\* C16: no emitted fact names a context with a typed-member segment, an
\* explicit-member axis outside the allowed axes or a member outside its
\* axis's allowed members; a mapped tag on a context with no segment or with
\* only allowed axis/member pairs passes the context filter: each of its
\* mappings is emitted once unless the anchor-context rule of its statement
\* applies to it.
C16_OnlyAdmissibleContexts ==
    stage = "facts" =>
        /\ \A j \in DOMAIN ret :
              ret[j].context_ref # "" =>
                  /\ ~HasTypedMember(Declared(ret[j].context_ref))
                  /\ ~HasDisallowedDimension(Declared(ret[j].context_ref))
        /\ \A i \in DOMAIN argv.tags :
              LET ctx_ref == argv.tags[i].contextref
              IN (/\ ctx_ref # ""
                  /\ ~HasTypedMember(Declared(ctx_ref))
                  /\ ~HasDisallowedDimension(Declared(ctx_ref)))
                    => \A m \in Mappings(i) :
                          (\/ AnchorContextsOf(m[2]) = {}
                           \/ m[1] \in ANCHOR_LINE_ITEMS(m[2])
                           \/ ctx_ref \in AnchorContextsOf(m[2]))
                              => Cardinality(EmittedFor(i, m)) = 1

\* revenue on the context with a corporate non-segment member is emitted,
\* net income on the operating-segments context is not
C16_Witness ==
    /\ stage = "facts"
    /\ Len(argv.tags) = 2
    /\ argv.tags[1].name = "us-gaap:Revenues"
    /\ argv.tags[1].contextref = "ctxConsolidated"
    /\ argv.tags[2].name = "us-gaap:NetIncomeLoss"
    /\ argv.tags[2].contextref = "ctxSegmented"
    /\ Len(ret) = 1
    /\ ret[1].line_item = "revenue" /\ ret[1].context_ref = "ctxConsolidated"

\* C18: when a statement has at least one anchor context, a fact for a
\* non-anchor line item of that statement (on no context or on an
\* admissible one) is kept exactly when its context is one of the
\* statement's anchor contexts or it has no context ref; facts for anchor
\* line items are never dropped by this rule.
C18_AnchorContextRule ==
    stage = "facts" =>
        \A i \in DOMAIN argv.tags :
            LET ctx_ref == argv.tags[i].contextref
                admissible == \/ ctx_ref = ""
                              \/ /\ ~HasTypedMember(Declared(ctx_ref))
                                 /\ ~HasDisallowedDimension(Declared(ctx_ref))
            IN admissible =>
                  \A m \in Mappings(i) :
                      /\ (AnchorContextsOf(m[2]) # {} /\ m[1] \notin ANCHOR_LINE_ITEMS(m[2]))
                            => (EmittedFor(i, m) # {}
                                   <=> (ctx_ref = "" \/ ctx_ref \in AnchorContextsOf(m[2])))
                      /\ m[1] \in ANCHOR_LINE_ITEMS(m[2]) => EmittedFor(i, m) # {}

\* C18 (amended): when a statement has at least one anchor context, a fact
\* for a non-anchor line item of that statement is kept exactly when its
\* context is one of the statement's anchor contexts; a fact without a
\* context ref is dropped like one on any other context.  Facts for anchor
\* line items are never dropped by this rule.
C18_KeptOnlyOnAnchorContexts ==
    stage = "facts" =>
        \A i \in DOMAIN argv.tags :
            LET ctx_ref == argv.tags[i].contextref
                admissible == \/ ctx_ref = ""
                              \/ /\ ~HasTypedMember(Declared(ctx_ref))
                                 /\ ~HasDisallowedDimension(Declared(ctx_ref))
            IN admissible =>
                  \A m \in Mappings(i) :
                      /\ (AnchorContextsOf(m[2]) # {} /\ m[1] \notin ANCHOR_LINE_ITEMS(m[2]))
                            => (EmittedFor(i, m) # {}
                                   <=> (ctx_ref # "" /\ ctx_ref \in AnchorContextsOf(m[2])))
                      /\ m[1] \in ANCHOR_LINE_ITEMS(m[2]) => EmittedFor(i, m) # {}

\* revenue anchors the income statement on ctxConsolidated; cost of revenue
\* without a context ref is dropped
C18_Witness ==
    /\ stage = "facts"
    /\ Len(argv.tags) = 2
    /\ argv.tags[1].name = "us-gaap:CostOfRevenue"
    /\ argv.tags[1].contextref = ""
    /\ argv.tags[2].name = "us-gaap:Revenues"
    /\ argv.tags[2].contextref = "ctxConsolidated"
    /\ AnchorContextsOf("income_statement") = {"ctxConsolidated"}
    /\ Len(ret) = 1
    /\ ret[1].line_item = "revenue"

\* ------------------------------------------------------------------------
\* Raw storage (workers/edgar_client.py, StorageWriter).  A file name is the
\* sequence of its pieces, so that two names are equal exactly when the
\* strings are: "acc" + "_1" + ".html" is the name "acc_1" + ".html".
\* Directories are created on demand and hold nothing else.
\* ------------------------------------------------------------------------
Decimal(i) == <<"0", "1", "2", "3", "4", "5", "6", "7", "8", "9">>[i + 1]

\* dir_path / f"{base_name}.{suffix}"
PlainName(cik, base_name, suffix) == <<cik, "/">> \o base_name \o <<".">> \o suffix

\* dir_path / f"{base_name}_{i}.{suffix}"
NumberedName(cik, base_name, i, suffix) ==
    <<cik, "/">> \o base_name \o <<"_", Decimal(i), ".">> \o suffix

exists(fs, path) == \E f \in fs : f.path = path

\* mutant: the first candidate is taken whether or not it exists
unique_path_first_candidate(fs, cik, base_name, suffix) ==
    PlainName(cik, base_name, suffix)

unique_path(fs, cik, base_name, suffix) ==
    IF ~exists(fs, PlainName(cik, base_name, suffix))
    THEN PlainName(cik, base_name, suffix)
    ELSE LET i == CHOOSE k \in 1..(Cardinality(fs) + 1) :
                      /\ ~exists(fs, NumberedName(cik, base_name, k, suffix))
                      /\ \A j \in 1..(k - 1) :
                            exists(fs, NumberedName(cik, base_name, j, suffix))
         IN NumberedName(cik, base_name, i, suffix)

\* write_bytes / write_text: creates the file or replaces its content
write(fs, path, content) ==
    {f \in fs : f.path # path} \cup {[path |-> path, content |-> content]}

\* json.dumps(data, indent=2)
json_dumps(data) == <<"{", data, "}">>

\* ---- SpecStorage: a sequence of saves through one StorageWriter
MaxSaves == 3

SaveBytesCall(cik, accession, content, suffix) ==
    [op |-> "save_bytes", cik |-> cik, name |-> accession, content |-> content, suffix |-> suffix]

SaveJsonCall(cik, name, data) ==
    [op |-> "save_json", cik |-> cik, name |-> name, content |-> data, suffix |-> <<"json">>]

SaveBytesCalls ==
    {SaveBytesCall("0000000000", <<"acc">>, <<"content">>, <<"html">>),
     SaveBytesCall("0000000000", <<"acc">>, <<"new-content">>, <<"html">>),
     SaveBytesCall("0000000000", <<"acc", "_", "1">>, <<"content">>, <<"html">>),
     SaveBytesCall("0000000000", <<"acc">>, <<"content">>, <<"index", ".", "html">>),
     SaveBytesCall("0000000000", <<"acc", ".", "index">>, <<"new-content">>, <<"html">>),
     SaveBytesCall("0000000001", <<"acc">>, <<"content">>, <<"html">>),
     SaveBytesCall("0000000000", <<"submissions">>, <<"content">>, <<"json">>)}

SaveJsonCalls ==
    {SaveJsonCall("0000000000", <<"submissions">>, "value: 1"),
     SaveJsonCall("0000000000", <<"submissions">>, "value: 2")}

InitStorage ==
    /\ StoreIdle
    /\ TieIdle
    /\ rows = <<>> /\ aggregated = <<>>
    /\ stage = "storage"
    /\ CallIdle
    /\ JobIdle
    /\ SessionIdle
    /\ SchedulerIdle

SaveBytes ==
    /\ stage = "storage"
    /\ Len(argv) < MaxSaves
    /\ \E save \in SaveBytesCalls :
          LET file_path == unique_path(files, save.cik, save.name, save.suffix)
          IN /\ files' = write(files, file_path, save.content)
             /\ argv' = Append(argv, save)
             /\ ret' = Append(ret, file_path)
    /\ UNCHANGED <<stage, rows, aggregated, storeVars, tieVars, jobVars, sessionVars, scheduler>>

SaveJson ==
    /\ stage = "storage"
    /\ Len(argv) < MaxSaves
    /\ \E save \in SaveJsonCalls :
          LET file_path == unique_path(files, save.cik, save.name, <<"json">>)
          IN /\ files' = write(files, file_path, json_dumps(save.content))
             /\ argv' = Append(argv, save)
             /\ ret' = Append(ret, file_path)
    /\ UNCHANGED <<stage, rows, aggregated, storeVars, tieVars, jobVars, sessionVars, scheduler>>

NextStorage ==
    \/ SaveBytes
    \/ SaveJson

SpecStorage == InitStorage /\ [][NextStorage]_vars

\* what the i-th save wrote
WrittenBy(i) ==
    IF argv[i].op = "save_json" THEN json_dumps(argv[i].content) ELSE argv[i].content

\* C17: after any sequence of saves, every path returned so far exists with
\* the content its own call wrote, and no two calls returned the same path;
\* no step removes a file or changes the content of an existing one.
C17_SavesNeverOverwrite ==
    /\ [](stage = "storage" =>
            /\ \A i \in DOMAIN ret :
                  [path |-> ret[i], content |-> WrittenBy(i)] \in files
            /\ \A i, j \in DOMAIN ret : i # j => ret[i] # ret[j])
    /\ [][stage = "storage" => \A f \in files : f \in files']_vars

\* "acc_1.html" is taken by an accession named acc_1, so the second save of
\* acc goes to "acc_2.html" and all three files keep their content
C17_Witness ==
    /\ stage = "storage"
    /\ Len(ret) = 3
    /\ argv[1].name = <<"acc", "_", "1">> /\ argv[2].name = <<"acc">>
    /\ argv[3].name = <<"acc">> /\ argv[3].content = <<"new-content">>
    /\ argv[3].cik = "0000000000" /\ argv[3].suffix = <<"html">>
    /\ ret[1] = <<"0000000000", "/", "acc", "_", "1", ".", "html">>
    /\ ret[2] = <<"0000000000", "/", "acc", ".", "html">>
    /\ ret[3] = <<"0000000000", "/", "acc", "_", "2", ".", "html">>
    /\ Cardinality(files) = 3

\* ========================================================================
\* Liabilities from the equity total (workers/canonical.py,
\* _add_balance_sheet_residuals)
\* ========================================================================
\* the balance sheets of the model: the total of liabilities and equity,
\* equity, reported liabilities and a current-liabilities total with one
\* component
EquitySidePicks ==
    {Absent, BS("liabilities_equity", 100, "USD", PeriodEnd), BS("liabilities_equity", 100, "EUR", PeriodEnd)}
    \X {Absent, BS("equity", 30, "USD", PeriodEnd), BS("equity", 30, "EUR", PeriodEnd)}
    \X {Absent, BS("liabilities", 70, "USD", PeriodEnd)}
    \X {Absent, BS("liabilities_current", 20, "USD", PeriodEnd)}
    \X {Absent, BS("accounts_payable", 5, "USD", PeriodEnd)}

InitLiabilities ==
    /\ StoreIdle
    /\ TieIdle
    /\ CallIdle
    /\ JobIdle
    /\ SessionIdle
    /\ SchedulerIdle
    /\ \E balance_sheet \in EquitySidePicks : rows = PickedRows(balance_sheet, 1)
    /\ aggregated = <<>>
    /\ stage = "input"

NextLiabilities ==
    \/ Aggregate
    \/ AddBalanceSheetResiduals

SpecLiabilities == InitLiabilities /\ [][NextLiabilities]_vars

\* the balance-sheet rows of a line item at a period
BalanceSheetItemRows(rs, period, item) ==
    {i \in 1..Len(rs) : /\ rs[i].statement = "balance_sheet"
                        /\ rs[i].period_end = period
                        /\ rs[i].line_item = item}

\* the period has liabilities_equity and equity in one unit and no
\* liabilities row
LiabilitiesMissing(rs, period) ==
    /\ BalanceSheetItemRows(rs, period, "liabilities") = {}
    /\ \E i \in BalanceSheetItemRows(rs, period, "liabilities_equity") :
       \E j \in BalanceSheetItemRows(rs, period, "equity") : rs[i].unit = rs[j].unit

\* C20: when a period has liabilities_equity and equity in the same unit
\* but no liabilities row, the balance-sheet derivation step adds a
\* liabilities row of value liabilities_equity - equity for that period.
C20_LiabilitiesFromEquityTotal ==
    stage = "balance_sheet" =>
      LET input == aggregate_canonical_rows(rows, None)
      IN \A period \in PeriodsOf(input) :
            LiabilitiesMissing(input, period) =>
              \E i \in BalanceSheetItemRows(input, period, "liabilities_equity") :
              \E j \in BalanceSheetItemRows(input, period, "equity") :
              \E k \in BalanceSheetItemRows(aggregated, period, "liabilities") :
                 /\ input[i].unit = input[j].unit
                 /\ aggregated[k].value = input[i].value - input[j].value

\* ========================================================================
\* Cash-flow period alignment (workers/canonical.py, _align_cash_flow_starts;
\* the step between aggregation and the derivations)
\* ========================================================================
ALIGNED_LINE_ITEMS == {"cfi", "cff", "change_in_cash"}

\* the cfo row of the period of a row, as <<>> or <<row>>
CfoOf(rs, period_end) ==
    LET hit == {i \in 1..Len(rs) : /\ rs[i].statement = "cash_flow"
                                   /\ rs[i].line_item = "cfo"
                                   /\ rs[i].period_end = period_end}
    IN IF hit = {} THEN <<>> ELSE <<rs[CHOOSE i \in hit : \A j \in hit : i <= j]>>

\* the raw facts of a line item at a period end that start when cfo starts
FactsStartingAt(fact_rows, line_item, period_end, period_start) ==
    {i \in 1..Len(fact_rows) : /\ fact_rows[i].statement = "cash_flow"
                               /\ fact_rows[i].line_item = line_item
                               /\ fact_rows[i].period_end = period_end
                               /\ fact_rows[i].period_start = period_start
                               /\ fact_rows[i].value # None}

\* one aggregated row after alignment: a row that starts elsewhere takes
\* cfo's period_start, and the value of the raw fact that starts there when
\* there is one
AlignedRow(row, rs, fact_rows) ==
    LET cfo == CfoOf(rs, row.period_end)
    IN IF row.statement # "cash_flow" \/ row.line_item \notin ALIGNED_LINE_ITEMS THEN row
       ELSE IF cfo = <<>> THEN row
       ELSE IF cfo[1].period_start = None \/ row.period_start = cfo[1].period_start THEN row
       ELSE LET matching == FactsStartingAt(fact_rows, row.line_item, row.period_end,
                                            cfo[1].period_start)
            IN IF matching = {} THEN [row EXCEPT !.period_start = cfo[1].period_start]
               ELSE LET fact == fact_rows[CHOOSE i \in matching : \A j \in matching : i <= j]
                    IN [row EXCEPT !.period_start = cfo[1].period_start,
                                   !.value = fact.value,
                                   !.source_fact_id = fact.id]

align_cash_flow_starts(rs, fact_rows) ==
    [i \in 1..Len(rs) |-> AlignedRow(rs[i], rs, fact_rows)]

YearStart == 1
QuarterStart == 2

CashFlowFact(line_item, period_start, period_end, value) ==
    [ticker |-> "aapl", cik |-> "c1", accession |-> 1, period_start |-> period_start,
     period_end |-> period_end, period_type |-> "duration", statement |-> "cash_flow",
     line_item |-> line_item, value |-> value, unit |-> "USD"]

\* how a filing reports a cash-flow line at PeriodEnd: not at all, for the
\* year to date, for the quarter, or both (in either order)
Reportings(line_item, year_value, quarter_value) ==
    LET year == CashFlowFact(line_item, YearStart, PeriodEnd, year_value)
        quarter == CashFlowFact(line_item, QuarterStart, PeriodEnd, quarter_value)
    IN {<<>>, <<year>>, <<quarter>>, <<year, quarter>>, <<quarter, year>>}

\* fact_rows as the SELECT returns them: the id is the position
WithIds(fact_rows) ==
    [i \in 1..Len(fact_rows) |->
       [id |-> i, ticker |-> fact_rows[i].ticker, cik |-> fact_rows[i].cik,
        accession |-> fact_rows[i].accession,
        period_start |-> fact_rows[i].period_start,
        period_end |-> fact_rows[i].period_end,
        period_type |-> fact_rows[i].period_type,
        statement |-> fact_rows[i].statement, line_item |-> fact_rows[i].line_item,
        value |-> fact_rows[i].value, unit |-> fact_rows[i].unit]]

InitAlign ==
    /\ StoreIdle
    /\ TieIdle
    /\ CallIdle
    /\ JobIdle
    /\ SessionIdle
    /\ SchedulerIdle
    /\ \E cfo \in {<<>>, <<CashFlowFact("cfo", YearStart, PeriodEnd, 250)>>,
                   <<CashFlowFact("cfo", QuarterStart, PeriodEnd, 100)>>},
          cfi \in Reportings("cfi", -50, -40)
                  \cup {<<CashFlowFact("cfi", YearStart, NextPeriodEnd, -60)>>},
          cff \in Reportings("cff", -30, -20),
          change_in_cash \in Reportings("change_in_cash", 20, 40) :
          rows = WithIds(cfo \o cfi \o cff \o change_in_cash)
    /\ aggregated = <<>>
    /\ stage = "input"

AlignCashFlowStarts ==
    /\ stage = "aggregated"
    /\ aggregated' = align_cash_flow_starts(aggregated, rows)
    /\ stage' = "aligned"
    /\ UNCHANGED <<rows, storeVars, tieVars, callVars, jobVars, sessionVars, scheduler>>

NextAlign ==
    \/ Aggregate
    \/ AlignCashFlowStarts

SpecAlign == InitAlign /\ [][NextAlign]_vars

\* the rows of the aligned line items, and of cfo, at one period end
AlignedItemRows(rs, period_end) ==
    {i \in 1..Len(rs) : /\ rs[i].statement = "cash_flow"
                        /\ rs[i].line_item \in ALIGNED_LINE_ITEMS
                        /\ rs[i].period_end = period_end}

CfoRows(rs) ==
    {i \in 1..Len(rs) : rs[i].statement = "cash_flow" /\ rs[i].line_item = "cfo"}

TieBalanceSheets ==
    {Absent, BS("assets", 10000, "USD", PeriodEnd), BS("assets", 9000, "USD", PeriodEnd)}
    \X {Absent, BS("liabilities", 6000, "USD", PeriodEnd), BS("liabilities", 7000, "USD", PeriodEnd)}
    \X {Absent, BS("equity", 3000, "USD", PeriodEnd)}
    \X {Absent, BS("liabilities_equity", 10000, "USD", PeriodEnd), BS("liabilities_equity", 9000, "USD", PeriodEnd)}

InitWorkerTie ==
    /\ StoreIdle
    /\ TieIdle
    /\ CallIdle
    /\ JobIdle
    /\ SessionIdle
    /\ SchedulerIdle
    /\ \E balance_sheet \in TieBalanceSheets : rows = PickedRows(balance_sheet, 1)
    /\ aggregated = <<>>
    /\ stage = "input"

\* log_tie_checks(aggregated, strict=False): the violations are returned
LogTieChecks ==
    /\ stage = "aggregated"
    /\ ret' = [violations |-> collect_tie_violations(aggregated)]
    /\ stage' = "tie_checks"
    /\ UNCHANGED <<argv, files, rows, aggregated, storeVars, tieVars, jobVars, sessionVars, scheduler>>

NextWorkerTie ==
    \/ Aggregate
    \/ LogTieChecks

SpecWorkerTie == InitWorkerTie /\ [][NextWorkerTie]_vars

BalanceSheetViolation(period) ==
    \E v \in ret.violations : v[1] = "Balance sheet tie off" /\ v[2] = period

\* C21: log_tie_checks judges the balance sheet against liabilities_equity
\* when that row is present (a violation exactly when assets differs from
\* liabilities_equity by more than the tolerance), and against
\* liabilities + equity only when liabilities_equity is absent.
C21_TiePrefersLiabilitiesEquity ==
    stage = "tie_checks" =>
      \A period \in PeriodsOf(aggregated) :
         LET assets == TieValue(aggregated, period, "balance_sheet", "assets")
             liabilities == TieValue(aggregated, period, "balance_sheet", "liabilities")
             equity == TieValue(aggregated, period, "balance_sheet", "equity")
             liabilities_equity ==
                 TieValue(aggregated, period, "balance_sheet", "liabilities_equity")
         IN IF liabilities_equity # None
            THEN BalanceSheetViolation(period)
                 <=> (assets # None /\ Abs(assets - liabilities_equity) > TIE_TOLERANCE)
            ELSE BalanceSheetViolation(period)
                 <=> (/\ assets # None /\ liabilities # None /\ equity # None
                      /\ Abs(assets - (liabilities + equity)) > TIE_TOLERANCE)

\* ========================================================================
\* Selection of the filings to fetch (workers/jobs/fetch_filings.py)
\* ========================================================================
ALLOWED_FORMS == {"10-K", "10-Q", "20-F", "40-F"}

Min(a, b) == IF a < b THEN a ELSE b

\* zip(forms, accessions, filing_dates): as long as the shortest list
Zip3(forms, accessions, filing_dates) ==
    [i \in 1..Min(Len(forms), Min(Len(accessions), Len(filing_dates))) |->
       [form |-> forms[i], accession |-> accessions[i], filed_at |-> filing_dates[i]]]

\* _iter_allowed_recent: the entries of the feed with an allowed form
iter_allowed_recent(submissions) ==
    SelectSeq(Zip3(submissions.form, submissions.accessionNumber, submissions.filingDate),
              LAMBDA e : e.form \in ALLOWED_FORMS)

\* the loop of _select_missing_filings: an entry is appended, and only then
\* is the length compared with limit
RECURSIVE SelectMissingFrom(_, _, _, _)
SelectMissingFrom(entries, existing_accessions, limit, selected) ==
    IF entries = <<>> THEN selected
    ELSE IF Head(entries).accession \in existing_accessions
    THEN SelectMissingFrom(Tail(entries), existing_accessions, limit, selected)
    ELSE IF Len(selected) + 1 >= limit THEN Append(selected, Head(entries))
    ELSE SelectMissingFrom(Tail(entries), existing_accessions, limit,
                           Append(selected, Head(entries)))

select_missing_filings(submissions, existing_accessions, limit) ==
    SelectMissingFrom(iter_allowed_recent(submissions), existing_accessions, limit, <<>>)

MaxFeed == 3
MaxLimit == 2

FeedForms == {"10-K", "10-Q", "8-K"}
FeedAccessions == {"acc-1", "acc-2", "acc-3"}

\* filings.recent of the submissions feed: parallel lists
Submissions(forms, accessions) ==
    [form |-> forms, accessionNumber |-> accessions,
     filingDate |-> [i \in DOMAIN forms |-> "2024-01-01"]]

InitSelect ==
    /\ StoreIdle
    /\ TieIdle
    /\ rows = <<>> /\ aggregated = <<>>
    /\ stage = "select_input"
    /\ ret = <<>> /\ files = {}
    /\ JobIdle
    /\ SessionIdle
    /\ SchedulerIdle
    /\ \E n \in 0..MaxFeed : \E forms \in [1..n -> FeedForms] :
       \E accessions \in [1..n -> FeedAccessions] :
       \E existing \in SUBSET {"acc-1", "acc-2"} : \E limit \in 0..MaxLimit :
          argv = [submissions |-> Submissions(forms, accessions),
                  existing_accessions |-> existing, limit |-> limit]

SelectMissingFilings ==
    /\ stage = "select_input"
    /\ ret' = select_missing_filings(argv.submissions, argv.existing_accessions, argv.limit)
    /\ stage' = "select_missing_filings"
    /\ UNCHANGED <<argv, files, rows, aggregated, storeVars, tieVars, jobVars, sessionVars, scheduler>>

NextSelect == SelectMissingFilings

SpecSelect == InitSelect /\ [][NextSelect]_vars

\* the entries of the feed that may be fetched, in feed order
EligibleEntries ==
    SelectSeq(Zip3(argv.submissions.form, argv.submissions.accessionNumber,
                   argv.submissions.filingDate),
              LAMBDA e : e.form \in {"10-K", "10-Q", "20-F", "40-F"}
                         /\ e.accession \notin argv.existing_accessions)

\* C24: _select_missing_filings returns, in feed order, the first `limit`
\* eligible entries (allowed form, accession not in existing_accessions):
\* never more than `limit`, none existing, none of a disallowed form, none
\* skipped before a returned one.
C24_FirstLimitEligibleInFeedOrder ==
    stage = "select_missing_filings" =>
      ret = SubSeq(EligibleEntries, 1, Min(argv.limit, Len(EligibleEntries)))

\* ========================================================================
\* The backfill jobs (workers/jobs/backfill_recent.py, backfill_all.py,
\* backfill_ticker.py, fetch_filings.py; table filings of workers/db.py)
\* ========================================================================
\* get_cik_for_ticker: two share classes of one company share its CIK
get_cik_for_ticker(ticker) ==
    CASE ticker = "AAPL" -> "0000320193"
      [] ticker = "GOOG" -> "0001652044"
      [] ticker = "GOOGL" -> "0001652044"
      [] OTHER -> ""

\* list_supported_tickers(): the curated map, by ticker
SupportedTickers == <<"AAPL", "GOOG", "GOOGL">>

\* client.get_submissions(cik): the feed, the same in every run
get_submissions(cik) ==
    IF cik = "0000320193"
    THEN Submissions(<<"10-K", "8-K", "10-Q">>, <<"a-1", "a-2", "a-3">>)
    ELSE Submissions(<<"10-Q">>, <<"g-1">>)

\* one call of a collaborator of a job
Call(op, ticker, accession, strict_ties) ==
    [op |-> op, ticker |-> ticker, accession |-> accession, strict_ties |-> strict_ties]

\* upsert_filing: INSERT ... ON CONFLICT (accession) DO UPDATE of form,
\* filed_at and paths; the ticker of an existing row stays
upsert_filing(table, ticker, accession) ==
    IF \E f \in table : f.accession = accession THEN table
    ELSE table \cup {[accession |-> accession, ticker |-> ticker]}

\* list_filing_accessions: SELECT accession FROM filings WHERE ticker = %s
list_filing_accessions(table, ticker) ==
    {f.accession : f \in {g \in table : g.ticker = ticker}}

\* the loop over to_fetch of fetch_missing_filings: the download of the
\* entry at position `failing` raises; what was upserted before stays
RECURSIVE FetchFrom(_, _, _, _, _)
FetchFrom(to_fetch, position, failing, ticker, acc) ==
    IF to_fetch = <<>> THEN acc
    ELSE LET entry == Head(to_fetch)
             fetched == Append(acc.calls, Call("get_filing_index", ticker, entry.accession, ""))
         IN IF position = failing THEN [acc EXCEPT !.raised = "download failed", !.calls = fetched]
            ELSE FetchFrom(Tail(to_fetch), position + 1, failing, ticker,
                           [acc EXCEPT !.calls = fetched,
                                       !.saved = Append(acc.saved, entry),
                                       !.filings = upsert_filing(acc.filings, ticker, entry.accession)])

\* fetch_missing_filings; weather.fetch is "ok", "no_submissions" (the feed
\* cannot be read) or "fails_on_second" (the second download raises)
fetch_missing_filings(ticker, limit, table, weather) ==
    LET cik == get_cik_for_ticker(ticker)
        start == [raised |-> "", saved |-> <<>>, filings |-> table, calls |-> <<>>,
                  cik |-> cik]
    IN IF cik = "" THEN [start EXCEPT !.raised = "ticker not found"]
       ELSE IF weather.fetch = "no_submissions"
       THEN [start EXCEPT !.raised = "submissions unavailable"]
       ELSE FetchFrom(select_missing_filings(get_submissions(cik),
                                             list_filing_accessions(table, ticker), limit),
                      1, IF weather.fetch = "fails_on_second" THEN 2 ELSE 0, ticker, start)

\* the loop over saved of backfill_recent: parse_filing of each accession
\* not yet parsed in this run; weather.parse = "raises" makes it raise
RECURSIVE ParseSaved(_, _, _, _, _)
ParseSaved(saved, ticker, weather, parsed_accessions, acc) ==
    IF saved = <<>> \/ acc.raised # "" THEN acc
    ELSE IF Head(saved).accession \in parsed_accessions
    THEN ParseSaved(Tail(saved), ticker, weather, parsed_accessions, acc)
    ELSE LET called == Append(acc.calls, Call("parse_filing", ticker, Head(saved).accession, ""))
         IN IF weather.parse = "raises"
            THEN [acc EXCEPT !.raised = "parse failed", !.calls = called]
            ELSE ParseSaved(Tail(saved), ticker, weather,
                            parsed_accessions \cup {Head(saved).accession},
                            [acc EXCEPT !.calls = called])

\* run_materialization(ticker, strict_ties): log_tie_checks raises when the
\* ticker's statements do not tie and the run is strict
run_materialization(ticker, strict_ties, weather, acc) ==
    LET called == Append(acc.calls, Call("run_materialization", ticker, "", strict_ties))
    IN IF weather.ties_off /\ strict_ties = "True"
       THEN [acc EXCEPT !.raised = "Tie violations detected", !.calls = called]
       ELSE [acc EXCEPT !.calls = called]

\* the body of the try of backfill_recent for one ticker
recent_ticker(ticker, limit, strict_ties, table, weather) ==
    LET fetched == fetch_missing_filings(ticker, limit, table, weather)
    IN IF fetched.raised # "" THEN fetched
       ELSE LET parsed == ParseSaved(fetched.saved, ticker, weather, {}, fetched)
            IN IF parsed.raised # "" THEN parsed
               ELSE IF fetched.saved # <<>>
               THEN run_materialization(ticker, strict_ties, weather, parsed)
               ELSE parsed

\* mutant: the entry of a ticker that raised carries no error
ResultEntry_without_error(ticker, outcome) == [ticker |-> ticker, error |-> ""]

\* results.append(...) of either branch
ResultEntry(ticker, outcome) ==
    IF outcome.raised # "" THEN [ticker |-> ticker, error |-> outcome.raised]
    ELSE [ticker |-> ticker, error |-> ""]

\* the loop over selected of backfill_recent
RECURSIVE RecentFrom(_, _, _, _, _)
RecentFrom(selected, limit, strict_ties, weather, acc) ==
    IF selected = <<>> THEN acc
    ELSE LET outcome == recent_ticker(Head(selected), limit, strict_ties, acc.filings,
                                      weather[Head(selected)])
         IN RecentFrom(Tail(selected), limit, strict_ties, weather,
                       [filings |-> outcome.filings,
                        calls |-> acc.calls \o outcome.calls,
                        failures |-> acc.failures + (IF outcome.raised # "" THEN 1 ELSE 0),
                        results |-> Append(acc.results, ResultEntry(Head(selected), outcome))])

\* `if tickers: ... else: sorted(list_supported_tickers().keys())`
SelectedTickers(tickers) == IF tickers # <<>> THEN tickers ELSE SupportedTickers

JobReturn(selected, limit, done) ==
    [tickers |-> selected, limit |-> limit, success |-> Len(selected) - done.failures,
     failed |-> done.failures, results |-> done.results]

backfill_recent(limit, tickers, strict_ties, table, weather) ==
    LET selected == SelectedTickers(tickers)
        done == RecentFrom(selected, limit, strict_ties, weather,
                           [filings |-> table, calls |-> <<>>, failures |-> 0,
                            results |-> <<>>])
    IN [ret |-> JobReturn(selected, limit, done), filings |-> done.filings,
        calls |-> done.calls]

\* the parameters of backfill_ticker(ticker, limit=24, storage_root=None)
BACKFILL_TICKER_PARAMETERS == {"ticker", "limit", "storage_root"}

\* the keywords of the call in backfill_all
BACKFILL_ALL_KEYWORDS == {"limit", "storage_root", "strict_ties"}

\* mutant: any keyword binds
binds_any(keywords, parameters) == TRUE

\* Python binds a call's keywords to the parameters, or raises TypeError
binds(keywords, parameters) == keywords \subseteq parameters

FeedOrder == <<"a-1", "a-2", "a-3", "g-1">>

\* list_filings_by_ticker(ticker, limit): the ticker's filings, at most limit
list_filings_by_ticker(table, ticker, limit) ==
    LET mine == SelectSeq(FeedOrder, LAMBDA a : a \in list_filing_accessions(table, ticker))
    IN SubSeq(mine, 1, Min(limit, Len(mine)))

\* the loop over saved of backfill_ticker: every saved entry is parsed
RECURSIVE ParseAll(_, _, _, _)
ParseAll(saved, ticker, weather, acc) ==
    IF saved = <<>> \/ acc.raised # "" THEN acc
    ELSE LET called == Append(acc.calls, Call("parse_filing", ticker, Head(saved).accession, ""))
         IN IF weather.parse = "raises"
            THEN [acc EXCEPT !.raised = "parse failed", !.calls = called]
            ELSE ParseAll(Tail(saved), ticker, weather,
                          [acc EXCEPT !.calls = called,
                                      !.parsed = acc.parsed \cup {Head(saved).accession}])

\* the loop over existing_filings of backfill_ticker: filings already
\* recorded are parsed again until `limit` filings were parsed
RECURSIVE ParseExisting(_, _, _, _, _)
ParseExisting(existing_filings, ticker, limit, weather, acc) ==
    IF existing_filings = <<>> \/ acc.raised # "" THEN acc
    ELSE IF Head(existing_filings) \in acc.parsed
    THEN ParseExisting(Tail(existing_filings), ticker, limit, weather, acc)
    ELSE LET called == Append(acc.calls, Call("parse_filing", ticker, Head(existing_filings), ""))
             parsed == acc.parsed \cup {Head(existing_filings)}
         IN IF weather.parse = "raises"
            THEN [acc EXCEPT !.raised = "parse failed", !.calls = called]
            ELSE IF Cardinality(parsed) >= limit
            THEN [acc EXCEPT !.calls = called, !.parsed = parsed]
            ELSE ParseExisting(Tail(existing_filings), ticker, limit, weather,
                               [acc EXCEPT !.calls = called, !.parsed = parsed])

\* backfill_ticker called with the given keywords; its body ends with
\* run_materialization(ticker), whose strict_ties defaults to True
backfill_ticker(ticker, keywords, limit, table, weather) ==
    IF ~binds(keywords, BACKFILL_TICKER_PARAMETERS)
    THEN [raised |-> "TypeError: unexpected keyword argument", filings |-> table,
          calls |-> <<>>]
    ELSE LET fetched == fetch_missing_filings(ticker, limit, table, weather)
         IN IF fetched.raised # "" THEN fetched
            ELSE LET start == [raised |-> "", filings |-> fetched.filings,
                               calls |-> fetched.calls, parsed |-> {}]
                     parsed == ParseAll(fetched.saved, ticker, weather, start)
                     again == IF parsed.raised = "" /\ Cardinality(parsed.parsed) < limit
                              THEN ParseExisting(list_filings_by_ticker(parsed.filings, ticker, limit),
                                                 ticker, limit, weather, parsed)
                              ELSE parsed
                 IN IF again.raised # "" THEN again
                    ELSE run_materialization(ticker, "True", weather, again)

\* the loop over selected of backfill_all
RECURSIVE AllFrom(_, _, _, _, _)
AllFrom(selected, limit, strict_ties, weather, acc) ==
    IF selected = <<>> THEN acc
    ELSE LET outcome == backfill_ticker(Head(selected), BACKFILL_ALL_KEYWORDS, limit,
                                        acc.filings, weather[Head(selected)])
         IN AllFrom(Tail(selected), limit, strict_ties, weather,
                    [filings |-> outcome.filings,
                     calls |-> acc.calls \o outcome.calls,
                     failures |-> acc.failures + (IF outcome.raised # "" THEN 1 ELSE 0),
                     results |-> Append(acc.results, ResultEntry(Head(selected), outcome))])

backfill_all(limit, max_tickers, tickers, strict_ties, table, weather) ==
    LET chosen == SelectedTickers(tickers)
        selected == IF max_tickers # None
                    THEN SubSeq(chosen, 1, Min(max_tickers, Len(chosen))) ELSE chosen
        done == AllFrom(selected, limit, strict_ties, weather,
                        [filings |-> table, calls |-> <<>>, failures |-> 0,
                         results |-> <<>>])
    IN [ret |-> JobReturn(selected, limit, done), filings |-> done.filings,
        calls |-> done.calls]

\* ---- SpecBackfill: runs of the jobs, one after the other, over one feed
MaxJobLimit == 2

\* what the outside world does to the processing of one ticker in one run
Fair == [fetch |-> "ok", parse |-> "ok", ties_off |-> FALSE]

Weathers ==
    {Fair, [Fair EXCEPT !.fetch = "no_submissions"], [Fair EXCEPT !.fetch = "fails_on_second"],
     [Fair EXCEPT !.parse = "raises"], [Fair EXCEPT !.ties_off = TRUE]}

TickerLists == {<<>>, <<"AAPL">>, <<"GOOG", "GOOGL">>}

\* in one run at most one ticker, AAPL or GOOG, meets trouble
JobWeathers ==
    {[t \in {"AAPL", "GOOG", "GOOGL"} |-> IF t = troubled THEN w ELSE Fair] :
        troubled \in {"AAPL", "GOOG"}, w \in Weathers}

JobArguments ==
    [limit : 1..MaxJobLimit, tickers : TickerLists, strict_ties : {"True", "False"},
     max_tickers : {None, 1}, weather : JobWeathers]

InitBackfill ==
    /\ StoreIdle
    /\ TieIdle
    /\ CallIdle
    /\ JobIdle
    /\ SessionIdle
    /\ SchedulerIdle
    /\ rows = <<>> /\ aggregated = <<>>
    /\ stage = "jobs"

\* one run of backfill_recent; `calls` holds the calls of the latest run
BackfillRecent ==
    /\ \E a \in JobArguments :
          /\ a.max_tickers = None
          /\ argv' = a
          /\ \E done \in {backfill_recent(a.limit, a.tickers, a.strict_ties, filings, a.weather)} :
                /\ ret' = done.ret
                /\ filings' = done.filings
                /\ calls' = done.calls
    /\ stage' = "backfill_recent"
    /\ UNCHANGED <<files, rows, aggregated, storeVars, tieVars, sessionVars, scheduler>>

BackfillAll ==
    /\ \E a \in JobArguments :
          /\ argv' = a
          /\ \E done \in {backfill_all(a.limit, a.max_tickers, a.tickers, a.strict_ties, filings, a.weather)} :
                /\ ret' = done.ret
                /\ filings' = done.filings
                /\ calls' = done.calls
    /\ stage' = "backfill_all"
    /\ UNCHANGED <<files, rows, aggregated, storeVars, tieVars, sessionVars, scheduler>>

\* backfill_ticker(ticker, limit=limit), as the API's backfill trigger calls it
BackfillTicker ==
    /\ \E a \in JobArguments :
          /\ a.max_tickers = None /\ a.strict_ties = "True" /\ Len(a.tickers) = 1
          /\ argv' = a
          /\ \E done \in {backfill_ticker(a.tickers[1], {"limit"}, a.limit, filings, a.weather[a.tickers[1]])} :
                /\ ret' = ResultEntry(a.tickers[1], done)
                /\ filings' = done.filings
                /\ calls' = done.calls
    /\ stage' = "backfill_ticker"
    /\ UNCHANGED <<files, rows, aggregated, storeVars, tieVars, sessionVars, scheduler>>

NextBackfill ==
    \/ BackfillRecent
    \/ BackfillAll
    \/ BackfillTicker

SpecBackfill == InitBackfill /\ [][NextBackfill]_vars

\* the positions of the calls of `op` for `ticker` in a run's calls
CallsOf(made, op, ticker) == {i \in 1..Len(made) : made[i].op = op /\ made[i].ticker = ticker}

\* the positions of the calls of `op` on `accession` in a run's calls
CallsOn(made, op, accession) == {i \in 1..Len(made) : made[i].op = op /\ made[i].accession = accession}

\* the error of the ticker's entry in a job's return, "" when it succeeded
ErrorOf(job, ticker) ==
    LET at == CHOOSE i \in 1..Len(job.results) : job.results[i].ticker = ticker
    IN job.results[at].error

\* the number of filings a run saved for a ticker: its downloads, less the one that raised
SavedBy(job, made, ticker) ==
    Cardinality(CallsOf(made, "get_filing_index", ticker))
        - (IF ErrorOf(job, ticker) = "download failed" THEN 1 ELSE 0)

\* C23: in every run of backfill_recent an accession recorded in filings
\* before the run is neither downloaded nor parsed, every accession is parsed
\* at most once in the run, and run_materialization is called exactly once
\* for a ticker for which the run saved a filing and not at all otherwise
C23_RecentNeverReprocesses ==
    [][BackfillRecent =>
        /\ \A i \in 1..Len(calls') :
              calls'[i].op \in {"get_filing_index", "parse_filing"}
                  => calls'[i].accession \notin {f.accession : f \in filings}
        /\ \A f \in filings' : Cardinality(CallsOn(calls', "parse_filing", f.accession)) <= 1
        /\ \A i \in 1..Len(ret'.tickers) :
              Cardinality(CallsOf(calls', "run_materialization", ret'.tickers[i]))
                  = IF SavedBy(ret', calls', ret'.tickers[i]) > 0 THEN 1 ELSE 0]_vars

\* the fetch, the parses and a materialization of strictness s all succeed
Succeeds(weather, strict_ties) ==
    /\ weather.fetch = "ok"
    /\ weather.parse = "ok"
    /\ ~(weather.ties_off /\ strict_ties = "True")

\* C22: after backfill_all(strict_ties=s) every materialization of the run
\* was called with strictness s, every selected ticker whose fetch, parse and
\* materialization succeed was materialized with strictness s, and it is
\* counted in 'success' (its result is no error entry)
C22_StrictnessReachesMaterialize ==
    stage = "backfill_all" =>
        /\ \A i \in 1..Len(calls) :
              calls[i].op = "run_materialization" => calls[i].strict_ties = argv.strict_ties
        /\ \A i \in 1..Len(ret.tickers) :
              Succeeds(argv.weather[ret.tickers[i]], argv.strict_ties)
                  => /\ ErrorOf(ret, ret.tickers[i]) = ""
                     /\ \E c \in CallsOf(calls, "run_materialization", ret.tickers[i]) :
                           calls[c].strict_ties = argv.strict_ties
        /\ ret.success >= Cardinality({i \in 1..Len(ret.tickers) :
                                          Succeeds(argv.weather[ret.tickers[i]], argv.strict_ties)})

\* the selection of either job: the given tickers or the supported ones, cut to max_tickers
Selection(a) ==
    LET chosen == SelectedTickers(a.tickers)
    IN IF a.max_tickers # None THEN SubSeq(chosen, 1, Min(a.max_tickers, Len(chosen))) ELSE chosen

\* the positions of the error entries in a job's results
ErrorEntries(job) == {i \in 1..Len(job.results) : job.results[i].error # ""}

\* C29: after backfill_all or backfill_recent 'results' holds one entry per
\* selected ticker in selection order, whatever raised before it: a ticker
\* whose submissions cannot be read has an error entry, and in backfill_recent
\* a ticker that meets no trouble has none; 'failed' counts exactly the error
\* entries and success + failed is the number of selected tickers
C29_EveryTickerProcessed ==
    stage \in {"backfill_all", "backfill_recent"} =>
        /\ ret.tickers = Selection(argv)
        /\ Len(ret.results) = Len(ret.tickers)
        /\ \A i \in 1..Len(ret.tickers) :
              /\ ret.results[i].ticker = ret.tickers[i]
              /\ argv.weather[ret.tickers[i]].fetch = "no_submissions" => i \in ErrorEntries(ret)
              /\ (stage = "backfill_recent" /\ argv.weather[ret.tickers[i]] = Fair)
                     => i \notin ErrorEntries(ret)
        /\ ret.failed = Cardinality(ErrorEntries(ret))
        /\ ret.success + ret.failed = Len(ret.tickers)

\* backfill_recent went on after the first ticker raised: the later tickers succeeded
C29_Witness ==
    /\ stage = "backfill_recent"
    /\ Len(ret.tickers) = 3
    /\ ErrorEntries(ret) = {1}
    /\ ret.failed = 1 /\ ret.success = 2
    /\ CallsOf(calls, "run_materialization", ret.tickers[3]) # {}

\* the reorderings of the positions of a list
Reorderings(n) == {p \in [1..n -> 1..n] : \A i, j \in 1..n : p[i] = p[j] => i = j}

\* what C26 compares of a canonical row: its key and the chosen fact
Chosen(c) ==
    [key |-> KeyOf(c), value |-> c.value, accession |-> c.accession,
     period_start |-> c.period_start, source_fact_id |-> c.source_fact_id]

ChosenRows(cs) == {Chosen(cs[k]) : k \in 1..Len(cs)}

\* C26: aggregate_canonical_rows returns, for every permutation of its raw
\* rows, canonical rows with the same keys and per key the same value,
\* accession, period_start and source_fact_id
C26_AggregateOrderInsensitive ==
    stage = "aggregated" =>
        \A p \in Reorderings(Len(rows)) :
            ChosenRows(aggregate_canonical_rows([i \in 1..Len(rows) |-> rows[p[i]]], None))
                = ChosenRows(aggregated)

\* ------------------------------------------------------------------------
\* SpecReparse: parse_and_store run again and again on files of two
\* accessions, between persist_fact calls of other callers
\* ------------------------------------------------------------------------
AssetsFiling(accession, value) ==
    [accession |-> accession, cik |-> "c1", ticker |-> "aapl",
     pending |-> <<FactArgs(accession, "c1", "aapl", None, PeriodEnd, "balance_sheet", "assets", value)>>]

\* what the file of accession 1 parses to, before and after it was amended,
\* and the file of accession 2
ReparsedFilings ==
    {AssetsFiling(1, 100),
     [AssetsFiling(1, 120) EXCEPT !.pending = Append(@, BalanceSheetFiling.pending[3])],
     [AssetsFiling(1, 100) EXCEPT !.pending = <<BalanceSheetFiling.pending[3]>>],
     [AssetsFiling(1, 100) EXCEPT !.pending = Append(@, BalanceSheetFiling.pending[2])],
     AssetsFiling(2, 7)}

Reparse == ParseAndStoreFrom(ReparsedFilings)

NextReparse ==
    \/ PersistFact
    \/ Reparse

SpecReparse == Init /\ [][NextReparse]_vars

\* the rows of a table that belong, or do not belong, to (accession, ticker)
FactsOf(table, accession, ticker, belong) ==
    SelectSeq(table, LAMBDA r : (r.accession = accession /\ r.ticker = Upper(ticker)) = belong)

\* the allowed facts among the pending facts of a parse
AllowedAmong(pending) == SelectSeq(pending, LAMBDA f : is_allowed(f.statement, f.line_item))

\* C27: a parse_and_store whose file yields an allowed fact leaves every row
\* of another (accession, ticker) as it was and leaves for its own
\* (accession, ticker) exactly the allowed facts of this parse, as new rows;
\* a parse without an allowed fact changes nothing
C27_ReparseReplacesOwnFactsOnly ==
    [][Reparse =>
        LET allowed == AllowedAmong(result'.pending)
        IN IF allowed = <<>> THEN facts' = facts
           ELSE /\ FactsOf(facts', allowed[1].accession, allowed[1].ticker, FALSE)
                      = FactsOf(facts, allowed[1].accession, allowed[1].ticker, FALSE)
                /\ FactsOf(facts', allowed[1].accession, allowed[1].ticker, TRUE)
                      = [i \in 1..Len(allowed) |-> FactRow(next_id + i - 1, allowed[i])]]_vars

\* accession 1 was parsed again after its file changed, next to facts of
\* accession 2: the earlier row of accession 1 is gone, the other stayed
C27_Witness ==
    /\ result.op = "parse_and_store"
    /\ result.inserted = 1
    /\ Len(facts) = 2
    /\ facts[1].accession = 2 /\ facts[1].id = 2
    /\ facts[2].accession = 1 /\ facts[2].id = 3 /\ facts[2].value = 120

\* the cash_flow rows of a period with one of the given line items
CashFlowRows(rs, period, items) ==
    {i \in 1..Len(rs) : /\ rs[i].statement = "cash_flow" /\ rs[i].period_end = period
                        /\ rs[i].line_item \in items}

\* the period has cfo, cfi, cff and change_in_cash rows in one unit
TotalsInOneUnit(rs, period) ==
    \E i \in CashFlowRows(rs, period, {"cfo"}) :
        \A item \in {"cfi", "cff", "change_in_cash"} :
            \E j \in CashFlowRows(rs, period, {item}) : rs[j].unit = rs[i].unit

\* the line item was reported for the period: a row of it comes from a raw fact
Reported(rs, period, item) ==
    \E i \in CashFlowRows(rs, period, {item}) : rs[i].source_fact_id # None

\* C28: after _add_cash_flow_residuals every period that has cfo, cfi, cff
\* and change_in_cash rows in one unit and for which fx_on_cash or
\* change_in_restricted_cash was not reported ties exactly, so the tie check
\* reports no cash-flow violation for it
C28_CashFlowTiesUnlessBothReported ==
    stage = "cash_flow" =>
        \A p \in PeriodsOf(aggregated) :
            (/\ TotalsInOneUnit(aggregated, p)
             /\ ~(Reported(aggregated, p, "fx_on_cash")
                  /\ Reported(aggregated, p, "change_in_restricted_cash")))
                => /\ cash_flow_delta(aggregated, p) = 0
                   /\ \A v \in collect_tie_violations(aggregated) :
                         ~(v[1] = "Cash flow tie off" /\ v[2] = p)

\* ------------------------------------------------------------------------
\* SpecConcurrent: materialize_canonical_for_ticker for one ticker on two
\* connections (two workers, or a worker and the API's inline fallback), each
\* in its own READ COMMITTED transaction
\* ------------------------------------------------------------------------
Sessions == {"w1", "w2"}

MaxRuns == 2

ConcurrentTicker == "AAPL"

\* the facts tables the runs read: the table does not change while they run
FactTables ==
    {[i \in 1..Len(BalanceSheetFiling.pending) |-> FactRow(i, BalanceSheetFiling.pending[i])],
     <<FactRow(1, FactArgs(2, "c1", "aapl", 1, PeriodEnd, "income_statement", "revenue", 100)),
       FactRow(2, FactArgs(1, "c1", "aapl", 2, PeriodEnd, "income_statement", "revenue", 50))>>,
     <<FactRow(1, FactArgs(1, "c1", "aapl", 2, PeriodEnd, "income_statement", "revenue", 50)),
       FactRow(2, FactArgs(1, "c9", "msft", 1, PeriodEnd, "income_statement", "revenue", 80))>>}

NoRun ==
    [pc |-> "idle", strict_ties |-> "", fact_rows |-> <<>>, snapshot |-> {},
     deleted |-> {}, inserted |-> <<>>]

InitConcurrent ==
    /\ facts \in FactTables
    /\ next_id = Len(facts) + 1
    /\ canonical = <<>> /\ pc = "idle" /\ txn = <<>> /\ run = <<>>
    /\ result = [op |-> "none"]
    /\ TieIdle
    /\ CallIdle
    /\ JobIdle
    /\ rows = <<>> /\ aggregated = <<>> /\ stage = "store"
    /\ sessions = [w \in Sessions |-> [NoRun EXCEPT !.pc = "idle"] @@ [runs |-> 0, commits |-> 0]]
    /\ canonical_id = 1
    /\ SchedulerIdle

SessionFrame == UNCHANGED <<facts, next_id, pc, txn, run, result, rows, aggregated, stage, tieVars, callVars, jobVars, scheduler>>

\* the ids of the committed rows of the ticker
CommittedIds(table, t) == {table[i].id : i \in {j \in DOMAIN table : table[j].ticker = t}}

\* a canonical row as inserted, with the id the sequence gives it
WithId(row, id) == [f \in DOMAIN row \cup {"id"} |-> IF f = "id" THEN id ELSE row[f]]

\* a stored canonical row without its id
WithoutId(row) == [f \in DOMAIN row \ {"id"} |-> row[f]]

\* the orders in which the runs get the rows of the SELECT: that of the heap
\* or its reverse
HeapOrders(seq) == {seq, [i \in 1..Len(seq) |-> seq[Len(seq) + 1 - i]]}

\* the SELECT on facts
SelectRun ==
    \E w \in Sessions, strict \in {"True", "False"} :
    \E fact_rows \in HeapOrders(SelectFacts(facts, ConcurrentTicker)) :
        /\ sessions[w].pc = "idle"
        /\ sessions[w].runs < MaxRuns
        /\ sessions' = [sessions EXCEPT ![w].pc = "selected", ![w].strict_ties = strict,
                                        ![w].fact_rows = fact_rows, ![w].runs = @ + 1]
        /\ UNCHANGED <<canonical, canonical_id>>
        /\ SessionFrame

\* the DELETE starts: it finds the rows committed when the statement begins
DeleteBegins ==
    \E w \in Sessions :
        /\ sessions[w].pc = "selected"
        /\ sessions' = [sessions EXCEPT ![w].pc = "deleting",
                                        ![w].snapshot = CommittedIds(canonical, ConcurrentTicker)]
        /\ UNCHANGED <<canonical, canonical_id>>
        /\ SessionFrame

\* the DELETE ends: it waits while another transaction holds the lock of a
\* row it found, and skips the rows that transaction deleted and committed
DeleteEnds ==
    \E w \in Sessions :
        /\ sessions[w].pc = "deleting"
        /\ \A v \in Sessions \ {w} : sessions[v].deleted \cap sessions[w].snapshot = {}
        /\ sessions' = [sessions EXCEPT ![w].pc = "deleted",
                                        ![w].deleted = sessions[w].snapshot
                                            \cap CommittedIds(canonical, ConcurrentTicker)]
        /\ UNCHANGED <<canonical, canonical_id>>
        /\ SessionFrame

\* aggregate, derive and cur.executemany(insert_sql, params)
InsertRows ==
    \E w \in Sessions :
        LET made == Materialized(sessions[w].fact_rows, facts, ConcurrentTicker)
        IN /\ sessions[w].pc = "deleted"
           /\ sessions' = [sessions EXCEPT ![w].pc = "inserted",
                              ![w].inserted = [k \in 1..Len(made) |-> WithId(made[k], canonical_id + k - 1)]]
           /\ canonical_id' = canonical_id + Len(made)
           /\ UNCHANGED canonical
           /\ SessionFrame

\* log_tie_checks raises in strict mode, or the INSERT failed: rolled back
RollbackRun ==
    \E w \in Sessions :
        /\ \/ sessions[w].pc = "deleted"
           \/ /\ sessions[w].pc = "inserted"
              /\ enforce(sessions[w].strict_ties)
              /\ collect_tie_violations([k \in 1..Len(sessions[w].inserted) |-> WithoutId(sessions[w].inserted[k])]) # {}
        /\ sessions' = [sessions EXCEPT ![w] = NoRun @@ [runs |-> sessions[w].runs, commits |-> sessions[w].commits]]
        /\ UNCHANGED <<canonical, canonical_id>>
        /\ SessionFrame

\* conn.commit(): the rows this transaction deleted go, the rows it inserted come
CommitRun ==
    \E w \in Sessions :
        /\ sessions[w].pc = "inserted"
        /\ ~(/\ enforce(sessions[w].strict_ties)
             /\ collect_tie_violations([k \in 1..Len(sessions[w].inserted) |-> WithoutId(sessions[w].inserted[k])]) # {})
        /\ canonical' = SelectSeq(canonical, LAMBDA r : r.id \notin sessions[w].deleted)
                            \o sessions[w].inserted
        /\ sessions' = [sessions EXCEPT ![w] = NoRun @@ [runs |-> sessions[w].runs, commits |-> sessions[w].commits + 1]]
        /\ UNCHANGED canonical_id
        /\ SessionFrame

NextConcurrent ==
    \/ SelectRun
    \/ DeleteBegins
    \/ DeleteEnds
    \/ InsertRows
    \/ RollbackRun
    \/ CommitRun

SpecConcurrent == InitConcurrent /\ [][NextConcurrent]_vars

\* what a single run over the facts table can commit
SingleRunResults ==
    {Materialized(fact_rows, facts, ConcurrentTicker) :
        fact_rows \in Orders(SelectFacts(facts, ConcurrentTicker))}

\* C25: once a run has committed, whatever the interleaving of the runs, the
\* committed canonical_facts hold at most one row per aggregation key and
\* are the rows of a single run over the ticker's raw facts
C25_InterleavedRunsLikeOne ==
    (\E w \in DOMAIN sessions : sessions[w].commits > 0) =>
        /\ \A i, j \in DOMAIN canonical :
              KeyOf(canonical[i]) = KeyOf(canonical[j]) => i = j
        /\ [i \in DOMAIN canonical |-> WithoutId(canonical[i])] \in SingleRunResults

\* ------------------------------------------------------------------------
\* SpecScheduler: the loop of the scheduler process. Time is counted in
\* ticks; a minute has TicksPerMinute ticks and a day MinutesPerDay minutes,
\* tick 0 is a Monday at 00:00
\* ------------------------------------------------------------------------
TicksPerMinute == 2

MinutesPerDay == 2

DaysPerWeek == 7

Horizon == 44

MaxRunTicks == 5

DayTicks == MinutesPerDay * TicksPerMinute

\* now.replace(hour=hour, minute=minute, second=0, microsecond=0), the time
\* of day given as its minute of the day
AtTimeOfDay(now, minute) == (now \div DayTicks) * DayTicks + minute * TicksPerMinute

\* now.weekday()
WeekdayOf(now) == (now \div DayTicks) % DaysPerWeek

\* the minute of the day of a time
MinuteOf(time) == (time % DayTicks) \div TicksPerMinute

\* mutant: the target of today is kept when it has passed
next_daily_run_today(now, minute) == AtTimeOfDay(now, minute)

next_daily_run(now, minute) ==
    LET target == AtTimeOfDay(now, minute)
    IN IF target <= now THEN target + DayTicks ELSE target

next_weekly_run(now, weekday, minute) ==
    LET days_ahead == (weekday - WeekdayOf(now)) % DaysPerWeek
        target == AtTimeOfDay(now, minute) + days_ahead * DayTicks
    IN IF target <= now THEN target + DaysPerWeek * DayTicks ELSE target

\* the environment of the process: which tasks are enabled, and when
Environments ==
    [nightly_enabled : BOOLEAN, weekly_enabled : BOOLEAN,
     nightly_minute : 0..(MinutesPerDay - 1), weekly_minute : 0..(MinutesPerDay - 1),
     weekly_weekday : {0, 2, 6}]

NothingRan == [nightly |-> "none", weekly |-> "none"]

InitScheduler ==
    /\ StoreIdle
    /\ TieIdle
    /\ CallIdle
    /\ JobIdle
    /\ SessionIdle
    /\ rows = <<>> /\ aggregated = <<>> /\ stage = "scheduler"
    /\ \E env \in Environments, clock \in 0..(DayTicks - 1) :
          scheduler = [pc |-> "start", clock |-> clock, env |-> env, now |-> None,
                       next_nightly |-> None, next_weekly |-> None, ran |-> NothingRan]

SchedulerFrame == UNCHANGED <<rows, aggregated, stage, storeVars, tieVars, callVars, jobVars, sessionVars>>

\* _main up to the loop: the first due times, or the return when no task is enabled
StartScheduler ==
    /\ scheduler.pc = "start"
    /\ scheduler' =
          IF ~scheduler.env.nightly_enabled /\ ~scheduler.env.weekly_enabled
          THEN [scheduler EXCEPT !.pc = "returned"]
          ELSE [scheduler EXCEPT
                  !.pc = "top",
                  !.now = scheduler.clock,
                  !.next_nightly = IF scheduler.env.nightly_enabled
                                   THEN next_daily_run(scheduler.clock, scheduler.env.nightly_minute)
                                   ELSE None,
                  !.next_weekly = IF scheduler.env.weekly_enabled
                                  THEN next_weekly_run(scheduler.clock, scheduler.env.weekly_weekday,
                                                       scheduler.env.weekly_minute)
                                  ELSE None]
    /\ SchedulerFrame

\* `now = datetime.now(timezone.utc)` at the top of the loop
ReadClock ==
    /\ scheduler.pc = "top"
    /\ scheduler' = [scheduler EXCEPT !.pc = "nightly", !.now = scheduler.clock,
                                      !.ran = NothingRan]
    /\ SchedulerFrame

\* `if next_nightly and now >= next_nightly`: the run, which takes time and
\* returns or raises an Exception, and the new due time
NightlyStep ==
    /\ scheduler.pc = "nightly"
    /\ IF scheduler.next_nightly # None /\ scheduler.now >= scheduler.next_nightly
       THEN \E took \in 0..MaxRunTicks, outcome \in {"returned", "raised"} :
               /\ scheduler.clock + took <= Horizon
               /\ scheduler' = [scheduler EXCEPT
                     !.pc = "weekly",
                     !.clock = scheduler.clock + took,
                     !.ran = [@ EXCEPT !.nightly = outcome],
                     !.next_nightly = next_daily_run(scheduler.clock + took,
                                                     scheduler.env.nightly_minute)]
       ELSE scheduler' = [scheduler EXCEPT !.pc = "weekly"]
    /\ SchedulerFrame

\* `if next_weekly and now >= next_weekly`
WeeklyStep ==
    /\ scheduler.pc = "weekly"
    /\ IF scheduler.next_weekly # None /\ scheduler.now >= scheduler.next_weekly
       THEN \E took \in 0..MaxRunTicks, outcome \in {"returned", "raised"} :
               /\ scheduler.clock + took <= Horizon
               /\ scheduler' = [scheduler EXCEPT
                     !.pc = "sleep",
                     !.clock = scheduler.clock + took,
                     !.ran = [@ EXCEPT !.weekly = outcome],
                     !.next_weekly = next_weekly_run(scheduler.clock + took,
                                                     scheduler.env.weekly_weekday,
                                                     scheduler.env.weekly_minute)]
       ELSE scheduler' = [scheduler EXCEPT !.pc = "sleep"]
    /\ SchedulerFrame

\* the earliest due time
NextDue(s) ==
    IF s.next_nightly = None THEN s.next_weekly
    ELSE IF s.next_weekly = None THEN s.next_nightly
    ELSE Min(s.next_nightly, s.next_weekly)

\* time.sleep(max(1, int(sleep_seconds))): the process wakes up when the
\* time has passed, or a tick later
Sleep ==
    /\ scheduler.pc = "sleep"
    /\ \E late \in 0..1 :
          LET sleep_seconds == NextDue(scheduler) - scheduler.clock
              slept == (IF sleep_seconds > 1 THEN sleep_seconds ELSE 1) + late
          IN /\ scheduler.clock + slept <= Horizon
             /\ scheduler' = [scheduler EXCEPT !.pc = "top", !.clock = scheduler.clock + slept]
    /\ SchedulerFrame

NextScheduler ==
    \/ StartScheduler
    \/ ReadClock
    \/ NightlyStep
    \/ WeeklyStep
    \/ Sleep

SpecScheduler == InitScheduler /\ [][NextScheduler]_vars

\* the task was due when the loop read the clock
Due(s, next) == next # None /\ s.now >= next

\* C30: in the loop a task whose due time has passed is run in this
\* iteration, once: the step at its `if` is the run, whether it returns or
\* raises, and sets its next due time strictly later than the clock at
\* rescheduling, at the configured time of day (and weekday for the weekly
\* task); a task that is not due is not run; after a nightly run that raised
\* the loop goes on to the weekly `if`
C30_DueTasksRunAndReschedule ==
    [][/\ (scheduler.pc = "nightly" /\ Due(scheduler, scheduler.next_nightly))
            => /\ scheduler'.ran.nightly \in {"returned", "raised"}
               /\ scheduler'.pc = "weekly"
               /\ scheduler'.next_nightly > scheduler'.clock
               /\ scheduler'.next_nightly <= scheduler'.clock + DayTicks
               /\ MinuteOf(scheduler'.next_nightly) = scheduler.env.nightly_minute
               /\ scheduler'.next_nightly % TicksPerMinute = 0
       /\ (scheduler.pc = "nightly" /\ ~Due(scheduler, scheduler.next_nightly))
            => /\ scheduler'.ran.nightly = "none"
               /\ scheduler'.next_nightly = scheduler.next_nightly
       /\ (scheduler.pc = "weekly" /\ Due(scheduler, scheduler.next_weekly))
            => /\ scheduler'.ran.weekly \in {"returned", "raised"}
               /\ scheduler'.ran.nightly = scheduler.ran.nightly
               /\ scheduler'.next_weekly > scheduler'.clock
               /\ scheduler'.next_weekly <= scheduler'.clock + DaysPerWeek * DayTicks
               /\ MinuteOf(scheduler'.next_weekly) = scheduler.env.weekly_minute
               /\ WeekdayOf(scheduler'.next_weekly) = scheduler.env.weekly_weekday
               /\ scheduler'.next_weekly % TicksPerMinute = 0
       /\ (scheduler.pc = "weekly" /\ ~Due(scheduler, scheduler.next_weekly))
            => /\ scheduler'.ran.weekly = "none"
               /\ scheduler'.next_weekly = scheduler.next_weekly
       /\ scheduler.pc \in {"top", "nightly", "weekly", "sleep"}
            => scheduler'.pc \in {"top", "nightly", "weekly", "sleep"}]_vars

\* the nightly run raised and the weekly run, due in the same iteration, ran
C30_Witness ==
    /\ stage = "scheduler"
    /\ scheduler.pc = "sleep"
    /\ scheduler.ran.nightly = "raised"
    /\ scheduler.ran.weekly \in {"returned", "raised"}
    /\ scheduler.next_nightly > scheduler.clock
    /\ scheduler.next_weekly > scheduler.clock

====
